---- MODULE Spec2Model ----
(***************************************************************************)
(* Verification model of the fluentbase read/write trace builder           *)
(* (circuits/src/rw_builder.rs), the nested hash-addressed execution       *)
(* syscall (crates/runtime/src/instruction/sys_exec_hash.rs), the account  *)
(* codec and arithmetic (crates/sdk/src/account.rs), the rwasm             *)
(* InstructionSet (rwasm/src/rwasm/instruction_set.rs) and the subroutine  *)
(* table of the EVM translator (rwasm/evm/src/translator/translator.rs).   *)
(*                                                                         *)
(* Seven state machines share this module, each with its own               *)
(* specification:                                                          *)
(*   SpecRw    the dispatcher RwBuilder::build driven step by step         *)
(*   SpecExec  SysExecHash::fn_handler / fn_impl called by a parent run    *)
(*   SpecAcc   Account::get_fields / Account::new_from_fields              *)
(*   SpecBal   Account::inc_nonce / add_balance / sub_balance              *)
(*   SpecPair  Account::transfer / Account::create_account, one call a run *)
(*   SpecIset  InstructionSet::push / push_with_meta / op_* / extend       *)
(*   SpecTr    Translator::init_code_snippets, one table entry a step      *)
(*                                                                         *)
(* Integers wider than the model checker's are scaled: u32 ranges over     *)
(* 0..MaxFuel, u64 over 0..2^NonceBits - 1 and U256 over                   *)
(* 0..2^BalanceBits - 1, with the arithmetic of the source at that width.  *)
(* Whether an overflowing `+`, `-` or `+=` panics or wraps is fixed by the *)
(* build profile (overflow-checks), which is drawn when the program is     *)
(* built, before its first arithmetic step.                                *)
(***************************************************************************)
EXTENDS Integers, Sequences, FiniteSets, TLC

VARIABLES
    \* ---- trace builder ----
    step,               \* the ExecStep handed to RwBuilder::build
    build_result,       \* what build returned for `step` ("none" before the call)
    global_rw_counter,  \* the run's counter allocator (next unused value)
    emitted,            \* rw_counter of every row of the run, in emission order
    steps_done,         \* number of steps the engine has prepared
    \* ---- nested execution ----
    ctx,                \* the parent RuntimeContext
    ctx_before,         \* the parent context as it was when fn_impl was entered
    exec_call,          \* arguments and child outcome of the last fn_impl call
    exec_result,        \* what fn_impl returned
    exec_calls,         \* number of fn_handler calls made
    handler_call,       \* the guest's arguments of the last fn_handler call
    handler_result,     \* what fn_handler returned to the guest
    guest_mem,          \* the guest's linear memory
    guest_mem_before,   \* that memory as it was when fn_handler was entered
    \* ---- account codec ----
    account,            \* an Account value
    fields,             \* AccountFields produced by get_fields
    decoded,            \* Account rebuilt by new_from_fields
    acc_pc,             \* position of the codec round trip
    \* ---- account arithmetic ----
    acct,               \* the Account operated on (nonce, balance)
    acct_before,        \* that account as it was when the operation was entered
    acct_op,            \* the last operation called and its amount
    acct_result,        \* what that operation returned
    \* ---- account transfer and creation ----
    caller,             \* the `from` / `caller` Account of the last call
    callee,             \* the `to` Account, or the callee create_account built
    pair_before,        \* both accounts as they were when the call was entered
    pair_op,            \* the last two-account operation and its arguments
    pair_result,        \* what that operation returned
    \* ---- instruction set ----
    iset,               \* an InstructionSet (instr, metas)
    iset_before,        \* that set as it was when the last method was entered
    iset_op,            \* the last method called on it
    iset_result,        \* what that method returned
    \* ---- translator ----
    opcode_to_subroutine_data,    \* Translator's map opcode -> SubroutineData
    subroutines_instruction_set,  \* Translator's concatenated subroutines
    snippets_done,      \* number of table entries init_code_snippets has handled
    snippets_panicked,  \* init_code_snippets hit its panic!
    \* ---- build profile ----
    build_profile       \* "unset" until the program is built, then "debug"
                        \* (overflow checks) or "release" (wrapping)

vars == <<step, build_result, global_rw_counter, emitted, steps_done,
          ctx, ctx_before, exec_call, exec_result, exec_calls,
          handler_call, handler_result, guest_mem, guest_mem_before,
          account, fields, decoded, acc_pc,
          acct, acct_before, acct_op, acct_result,
          caller, callee, pair_before, pair_op, pair_result,
          iset, iset_before, iset_op, iset_result,
          opcode_to_subroutine_data, subroutines_instruction_set, snippets_done,
          snippets_panicked, build_profile>>

rw_vars   == <<step, build_result, global_rw_counter, emitted, steps_done>>
exec_vars == <<ctx, ctx_before, exec_call, exec_result, exec_calls,
               handler_call, handler_result, guest_mem, guest_mem_before>>
acc_vars  == <<account, fields, decoded, acc_pc>>
bal_vars  == <<acct, acct_before, acct_op, acct_result>>
pair_vars == <<caller, callee, pair_before, pair_op, pair_result>>
iset_vars == <<iset, iset_before, iset_op, iset_result>>
tr_vars   == <<opcode_to_subroutine_data, subroutines_instruction_set, snippets_done,
               snippets_panicked>>
build_vars == <<build_profile>>

\* TRUE: an overflowing `+`, `-` or `+=` panics; FALSE: it wraps
overflow_checks == build_profile = "debug"

(***************************************************************************)
(* Bounds of the model                                                     *)
(***************************************************************************)
MaxSteps == 2
MaxLen == 5
MemSize == 6
MaxTableSize == 2
MaxExecCalls == 2
MaxFuel == 2
MaxReturnLen == 2
MaxOutputLen == 3
NonceBits == 2
BalanceBits == 2
MaxInstr == 4
MaxSnippets == 4
MaxSubLen == 3

(***************************************************************************)
(* Generic helpers                                                         *)
(***************************************************************************)
Range(s) == {s[i] : i \in 1..Len(s)}

Ok == [tag |-> "Ok", arg |-> "-"]
Err(tag, arg) == [tag |-> tag, arg |-> arg]

\* n as `width` little-endian bytes (the low `width` bytes of n)
RECURSIVE le_bytes(_, _)
le_bytes(n, width) ==
    IF width = 0 THEN <<>> ELSE <<n % 256>> \o le_bytes(n \div 256, width - 1)

\* the integer a little-endian byte string denotes
RECURSIVE le_value(_)
le_value(bytes) ==
    IF bytes = <<>> THEN 0 ELSE Head(bytes) + 256 * le_value(Tail(bytes))

(***************************************************************************)
(* Row model (rw_row::RwRow).  One record shape for every kind.            *)
(***************************************************************************)
RwRow(kind, rw_counter, is_write, call_id, tag, address, value) ==
    [kind |-> kind, rw_counter |-> rw_counter, is_write |-> is_write,
     call_id |-> call_id, tag |-> tag, address |-> address, value |-> value]

(***************************************************************************)
(* ExecStep accessors                                                      *)
(***************************************************************************)
\* step.next_rw_counter(): hand out the next unused value, advance the allocator
next_rw_counter(s) ==
    [value |-> s.rw_counter, step |-> [s EXCEPT !.rw_counter = @ + 1]]

pc_diff(s) == s.pc_diff

\* guest memory byte at an address (regions are validated by the caller)
read_memory(s, addr) == s.memory[addr + 1]

\* step.rw_rows.push(Row { rw_counter: step.next_rw_counter(), .. })
push_row(s, kind, is_write, tag, address, value) ==
    LET c == next_rw_counter(s)
    IN  [c.step EXCEPT !.rw_rows =
            Append(@, RwRow(kind, c.value, is_write, s.call_id, tag, address, value))]

\* one row per element of `values`, addresses base, base+1, ... ascending
RECURSIVE push_rows(_, _, _, _, _)
push_rows(s, kind, is_write, base, values) ==
    IF values = <<>> THEN s
    ELSE LET n == Len(values)
             before == push_rows(s, kind, is_write, base, SubSeq(values, 1, n - 1))
         IN  push_row(before, kind, is_write, "None", base + n - 1, values[n])

\* element of the step's table at an index below its current size
table_element(s, index) == s.table[index + 1]

\* the bytes of guest memory at [offset, offset + len)
memory_region(s, offset, len) == [i \in 1..len |-> read_memory(s, offset + i - 1)]

(***************************************************************************)
(* SysFuncIdx::from(fn_idx): the platform function a Call resolves to.     *)
(* Indices outside the table resolve to UNKNOWN.                           *)
(***************************************************************************)
SysFuncTable ==
    <<"RWASM_TRANSACT", "SYS_HALT", "SYS_WRITE", "SYS_READ",
      "WASI_PROC_EXIT", "WASI_FD_WRITE", "WASI_ENVIRON_SIZES_GET",
      "WASI_ENVIRON_GET", "WASI_ARGS_SIZES_GET", "WASI_ARGS_GET",
      "ZKTRIE_STORE", "ZKTRIE_LOAD">>

SysFuncIdxFrom(fn_idx) ==
    IF fn_idx \in 1..Len(SysFuncTable) THEN SysFuncTable[fn_idx] ELSE "UNKNOWN"

(***************************************************************************)
(* Host / system-call generators (rw_builder::platform, ::wasi, ::rwasm).  *)
(* Each reads its argument region byte by byte, then records the logical   *)
(* result of the call in one Syscall row.                                  *)
(***************************************************************************)
\* memory rows over [offset, offset+len) followed by one syscall-result row
syscall_rw_ops(s, mem_is_write, offset, len, result_value) ==
    LET s1 == push_rows(s, "Memory", mem_is_write, offset,
                        memory_region(s, offset, len))
    IN  push_row(s1, "Syscall", TRUE, "None", 0, result_value)

build_rwasm_transact_rw_ops(s) ==
    [step |-> syscall_rw_ops(s, FALSE, s.dst, s.len, 0), res |-> Ok]

build_sys_halt_rw_ops(s) ==
    [step |-> push_row(s, "Syscall", FALSE, "None", 0, s.dst), res |-> Ok]

build_sys_write_rw_ops(s) ==
    [step |-> syscall_rw_ops(s, FALSE, s.dst, s.len, s.len), res |-> Ok]

build_sys_read_rw_ops(s) ==
    [step |-> syscall_rw_ops(s, TRUE, s.dst, s.len, s.len), res |-> Ok]

build_wasi_proc_exit_rw_ops(s) ==
    [step |-> push_row(s, "Syscall", FALSE, "None", 0, s.dst), res |-> Ok]

build_wasi_fd_write_rw_ops(s) ==
    [step |-> syscall_rw_ops(s, FALSE, s.dst, s.len, s.len), res |-> Ok]

build_wasi_environ_sizes_get_rw_ops(s) ==
    [step |-> syscall_rw_ops(s, TRUE, s.dst, 0, 0), res |-> Ok]

build_wasi_environ_get_rw_ops(s) ==
    [step |-> syscall_rw_ops(s, TRUE, s.dst, s.len, 0), res |-> Ok]

build_wasi_args_sizes_get_rw_ops(s) ==
    [step |-> syscall_rw_ops(s, TRUE, s.dst, 0, 0), res |-> Ok]

build_wasi_args_get_rw_ops(s) ==
    [step |-> syscall_rw_ops(s, TRUE, s.dst, s.len, 0), res |-> Ok]

(***************************************************************************)
(* Bulk and fuel generators (rw_builder::opcode)                           *)
(***************************************************************************)
\* fuel delta recorded as a context-level fact; exhaustion is fatal
build_consume_fuel_rw_ops(s) ==
    IF s.fuel_remaining < s.instr.arg
    THEN [step |-> s, res |-> Err("OutOfFuel", "-")]
    ELSE [step |-> push_row(s, "Context", TRUE, "ConsumedFuel", 0, s.instr.arg),
          res |-> Ok]

\* length rows at dst_offset + i, values snapshotted from the source region
build_memory_copy_rw_ops(s) ==
    [step |-> push_rows(s, "Memory", TRUE, s.dst, memory_region(s, s.src, s.len)),
     res |-> Ok]

\* length rows at dst_offset + i, every one carrying the fill value
build_memory_fill_rw_ops(s) ==
    [step |-> push_rows(s, "Memory", TRUE, s.dst, [i \in 1..s.len |-> s.src]),
     res |-> Ok]

\* the module declares a single table, index 0
table_in_range(table_idx) == table_idx \in {0}

build_table_fill_rw_ops(s, table_idx) ==
    IF ~table_in_range(table_idx) \/ s.dst + s.len > s.table_size
    THEN [step |-> s, res |-> Err("OutOfBounds", "-")]
    ELSE [step |-> push_rows(s, "Table", TRUE, s.dst, [i \in 1..s.len |-> s.src]),
          res |-> Ok]

build_table_copy_rw_ops(s, dst_tid) ==
    IF \/ ~table_in_range(dst_tid)
       \/ s.dst + s.len > s.table_size
       \/ s.src + s.len > s.table_size
    THEN [step |-> s, res |-> Err("OutOfBounds", "-")]
    ELSE [step |-> push_rows(s, "Table", TRUE, s.dst,
                             [i \in 1..s.len |-> table_element(s, s.src + i - 1)]),
          res |-> Ok]

\* grow from the current size S by delta: one row per new element S .. S+delta-1
build_table_grow_rw_ops(s, table_idx) ==
    IF ~table_in_range(table_idx) \/ s.table_size + s.len > s.table_max
    THEN [step |-> s, res |-> Err("OutOfBounds", "-")]
    ELSE [step |-> push_rows(s, "Table", TRUE, s.table_size,
                             [i \in 1..s.len |-> s.src]),
          res |-> Ok]

build_table_get_rw_ops(s, table_idx) ==
    IF ~table_in_range(table_idx) \/ s.dst >= s.table_size
    THEN [step |-> s, res |-> Err("OutOfBounds", "-")]
    ELSE [step |-> push_row(s, "Table", FALSE, "None", s.dst, table_element(s, s.dst)),
          res |-> Ok]

(***************************************************************************)
(* Generic generator: rows follow the instruction's declared rw-ops shape  *)
(***************************************************************************)
\* Instruction::get_rw_ops(): ordered stack accesses, TRUE = write (push)
get_rw_ops(instr) ==
    CASE instr.op = "I32Add"       -> <<FALSE, FALSE, TRUE>>
      [] instr.op = "I32Const"     -> <<TRUE>>
      [] instr.op = "Drop"         -> <<FALSE>>
      [] instr.op = "LocalGet"     -> <<FALSE, TRUE>>
      [] instr.op = "MemoryGrow"   -> <<FALSE, TRUE>>
      [] instr.op = "MemoryInit"   -> <<FALSE, FALSE, FALSE>>
      [] instr.op = "TableSet"     -> <<FALSE, FALSE>>
      [] instr.op = "TableInit"    -> <<FALSE, FALSE, FALSE>>
      [] instr.op = "CallIndirect" -> <<FALSE>>
      [] instr.op = "ReturnIfNez"  -> <<FALSE>>
      [] OTHER                     -> <<>>

RECURSIVE build_generic_rows(_, _)
build_generic_rows(s, rw_ops) ==
    IF rw_ops = <<>> THEN s
    ELSE LET n == Len(rw_ops)
             before == build_generic_rows(s, SubSeq(rw_ops, 1, n - 1))
         IN  push_row(before, "Stack", rw_ops[n], "None", n - 1, 0)

build_generic_rw_ops(s, rw_ops) ==
    [step |-> build_generic_rows(s, rw_ops), res |-> Ok]

(***************************************************************************)
(* rw_builder.rs: build_platform_rw_ops, build_return_rw_ops, build        *)
(***************************************************************************)
\* the dispatch with the SYS_WRITE arm calling the halt generator
build_platform_write_as_halt(s, sys_func) ==
    CASE sys_func = "RWASM_TRANSACT"         -> build_rwasm_transact_rw_ops(s)
      [] sys_func = "SYS_HALT"               -> build_sys_halt_rw_ops(s)
      [] sys_func = "SYS_WRITE"              -> build_sys_halt_rw_ops(s)
      [] sys_func = "SYS_READ"               -> build_sys_read_rw_ops(s)
      [] sys_func = "WASI_PROC_EXIT"         -> build_wasi_proc_exit_rw_ops(s)
      [] sys_func = "WASI_FD_WRITE"          -> build_wasi_fd_write_rw_ops(s)
      [] sys_func = "WASI_ENVIRON_SIZES_GET" -> build_wasi_environ_sizes_get_rw_ops(s)
      [] sys_func = "WASI_ENVIRON_GET"       -> build_wasi_environ_get_rw_ops(s)
      [] sys_func = "WASI_ARGS_SIZES_GET"    -> build_wasi_args_sizes_get_rw_ops(s)
      [] sys_func = "WASI_ARGS_GET"          -> build_wasi_args_get_rw_ops(s)
      [] OTHER -> [step |-> s, res |-> Err("UnknownSysCall", sys_func)]

\* the dispatch with the WASI_ARGS_GET arm missing
build_platform_no_args_get(s, sys_func) ==
    CASE sys_func = "RWASM_TRANSACT"         -> build_rwasm_transact_rw_ops(s)
      [] sys_func = "SYS_HALT"               -> build_sys_halt_rw_ops(s)
      [] sys_func = "SYS_WRITE"              -> build_sys_write_rw_ops(s)
      [] sys_func = "SYS_READ"               -> build_sys_read_rw_ops(s)
      [] sys_func = "WASI_PROC_EXIT"         -> build_wasi_proc_exit_rw_ops(s)
      [] sys_func = "WASI_FD_WRITE"          -> build_wasi_fd_write_rw_ops(s)
      [] sys_func = "WASI_ENVIRON_SIZES_GET" -> build_wasi_environ_sizes_get_rw_ops(s)
      [] sys_func = "WASI_ENVIRON_GET"       -> build_wasi_environ_get_rw_ops(s)
      [] sys_func = "WASI_ARGS_SIZES_GET"    -> build_wasi_args_sizes_get_rw_ops(s)
      [] OTHER -> [step |-> s, res |-> Err("UnknownSysCall", sys_func)]

build_platform_rw_ops(s, sys_func) ==
    CASE sys_func = "RWASM_TRANSACT"         -> build_rwasm_transact_rw_ops(s)
      [] sys_func = "SYS_HALT"               -> build_sys_halt_rw_ops(s)
      [] sys_func = "SYS_WRITE"              -> build_sys_write_rw_ops(s)
      [] sys_func = "SYS_READ"               -> build_sys_read_rw_ops(s)
      [] sys_func = "WASI_PROC_EXIT"         -> build_wasi_proc_exit_rw_ops(s)
      [] sys_func = "WASI_FD_WRITE"          -> build_wasi_fd_write_rw_ops(s)
      [] sys_func = "WASI_ENVIRON_SIZES_GET" -> build_wasi_environ_sizes_get_rw_ops(s)
      [] sys_func = "WASI_ENVIRON_GET"       -> build_wasi_environ_get_rw_ops(s)
      [] sys_func = "WASI_ARGS_SIZES_GET"    -> build_wasi_args_sizes_get_rw_ops(s)
      [] sys_func = "WASI_ARGS_GET"          -> build_wasi_args_get_rw_ops(s)
      [] OTHER -> [step |-> s, res |-> Err("UnknownSysCall", sys_func)]

\* the CallDepth row and next_call_id of a non-root return are commented out
\* build_return_rw_ops leaving the frame: the step moves to the caller's id
build_return_switches_frame(s) ==
    IF s.call_id > 0
    THEN [step |-> [s EXCEPT !.call_id = @ - 1], res |-> Ok]
    ELSE [step |-> s, res |-> Ok]

\* build_return_rw_ops with the CallDepth write and next_call_id enabled
build_return_pushes_call_depth(s) ==
    IF s.call_id > 0
    THEN [step |-> [push_row(s, "Context", TRUE, "CallDepth", 0, s.call_id - 1)
                      EXCEPT !.next_call_id = <<s.call_id - 1>>],
          res |-> Ok]
    ELSE [step |-> s, res |-> Ok]

\* the CallDepth row and next_call_id of a nested return are disabled in the
\* source: both branches leave the step as it is
build_return_rw_ops(s) ==
    IF s.call_id > 0
    THEN [step |-> s, res |-> Ok]
    ELSE [step |-> s, res |-> Ok]

\* build with the ProgramCounter row pushed after the generator has run
build_pc_row_last(s) ==
    LET op == s.instr.op
        r  ==
            CASE op = "Call"        -> build_platform_rw_ops(s, SysFuncIdxFrom(s.instr.arg))
              [] op = "Return"      -> build_return_rw_ops(s)
              [] op = "ConsumeFuel" -> build_consume_fuel_rw_ops(s)
              [] op = "MemoryCopy"  -> build_memory_copy_rw_ops(s)
              [] op = "MemoryFill"  -> build_memory_fill_rw_ops(s)
              [] op = "TableFill"   -> build_table_fill_rw_ops(s, s.instr.arg)
              [] op = "TableCopy"   -> build_table_copy_rw_ops(s, s.instr.arg)
              [] op = "TableGrow"   -> build_table_grow_rw_ops(s, s.instr.arg)
              [] op = "TableGet"    -> build_table_get_rw_ops(s, s.instr.arg)
              [] OTHER               -> build_generic_rw_ops(s, get_rw_ops(s.instr))
        c  == next_rw_counter(r.step)
    IN  [step |-> [c.step EXCEPT !.rw_rows =
                      Append(@, RwRow("Context", c.value, TRUE, s.call_id,
                                      "ProgramCounter", 0, pc_diff(s)))],
         res |-> r.res]

\* build reading the counter for the ProgramCounter row without advancing it
build_reuses_counter(s) ==
    LET s1 == [s EXCEPT !.rw_rows =
                 Append(@, RwRow("Context", s.rw_counter, TRUE, s.call_id,
                                 "ProgramCounter", 0, pc_diff(s)))]
        op == s.instr.op
    IN  CASE op = "Call"        -> build_platform_rw_ops(s1, SysFuncIdxFrom(s.instr.arg))
          [] op = "Return"      -> build_return_rw_ops(s1)
          [] op = "ConsumeFuel" -> build_consume_fuel_rw_ops(s1)
          [] op = "MemoryCopy"  -> build_memory_copy_rw_ops(s1)
          [] op = "MemoryFill"  -> build_memory_fill_rw_ops(s1)
          [] op = "TableFill"   -> build_table_fill_rw_ops(s1, s.instr.arg)
          [] op = "TableCopy"   -> build_table_copy_rw_ops(s1, s.instr.arg)
          [] op = "TableGrow"   -> build_table_grow_rw_ops(s1, s.instr.arg)
          [] op = "TableGet"    -> build_table_get_rw_ops(s1, s.instr.arg)
          [] OTHER               -> build_generic_rw_ops(s1, get_rw_ops(s.instr))

\* build without the MemoryCopy arm: the instruction falls to the generic path
build_no_memory_copy_arm(s) ==
    LET c  == next_rw_counter(s)
        s1 == [c.step EXCEPT !.rw_rows =
                 Append(@, RwRow("Context", c.value, TRUE, s.call_id,
                                 "ProgramCounter", 0, pc_diff(s)))]
        op == s.instr.op
    IN  CASE op = "Call"        -> build_platform_rw_ops(s1, SysFuncIdxFrom(s.instr.arg))
          [] op = "Return"      -> build_return_rw_ops(s1)
          [] op = "ConsumeFuel" -> build_consume_fuel_rw_ops(s1)
          [] op = "MemoryFill"  -> build_memory_fill_rw_ops(s1)
          [] op = "TableFill"   -> build_table_fill_rw_ops(s1, s.instr.arg)
          [] op = "TableCopy"   -> build_table_copy_rw_ops(s1, s.instr.arg)
          [] op = "TableGrow"   -> build_table_grow_rw_ops(s1, s.instr.arg)
          [] op = "TableGet"    -> build_table_get_rw_ops(s1, s.instr.arg)
          [] OTHER               -> build_generic_rw_ops(s1, get_rw_ops(s.instr))

\* build with the TableGrow arm calling the table-fill generator
build_grow_as_fill(s) ==
    LET c  == next_rw_counter(s)
        s1 == [c.step EXCEPT !.rw_rows =
                 Append(@, RwRow("Context", c.value, TRUE, s.call_id,
                                 "ProgramCounter", 0, pc_diff(s)))]
        op == s.instr.op
    IN  CASE op = "Call"        -> build_platform_rw_ops(s1, SysFuncIdxFrom(s.instr.arg))
          [] op = "Return"      -> build_return_rw_ops(s1)
          [] op = "ConsumeFuel" -> build_consume_fuel_rw_ops(s1)
          [] op = "MemoryCopy"  -> build_memory_copy_rw_ops(s1)
          [] op = "MemoryFill"  -> build_memory_fill_rw_ops(s1)
          [] op = "TableFill"   -> build_table_fill_rw_ops(s1, s.instr.arg)
          [] op = "TableCopy"   -> build_table_copy_rw_ops(s1, s.instr.arg)
          [] op = "TableGrow"   -> build_table_fill_rw_ops(s1, s.instr.arg)
          [] op = "TableGet"    -> build_table_get_rw_ops(s1, s.instr.arg)
          [] OTHER               -> build_generic_rw_ops(s1, get_rw_ops(s.instr))

\* build retracting the step's rows and counter when a generator fails
build_rolls_back_on_error(s) ==
    LET c  == next_rw_counter(s)
        s1 == [c.step EXCEPT !.rw_rows =
                 Append(@, RwRow("Context", c.value, TRUE, s.call_id,
                                 "ProgramCounter", 0, pc_diff(s)))]
        op == s.instr.op
        r  ==
        CASE op = "Call"        -> build_platform_rw_ops(s1, SysFuncIdxFrom(s.instr.arg))
          [] op = "Return"      -> build_return_rw_ops(s1)
          [] op = "ConsumeFuel" -> build_consume_fuel_rw_ops(s1)
          [] op = "MemoryCopy"  -> build_memory_copy_rw_ops(s1)
          [] op = "MemoryFill"  -> build_memory_fill_rw_ops(s1)
          [] op = "TableFill"   -> build_table_fill_rw_ops(s1, s.instr.arg)
          [] op = "TableCopy"   -> build_table_copy_rw_ops(s1, s.instr.arg)
          [] op = "TableGrow"   -> build_table_grow_rw_ops(s1, s.instr.arg)
          [] op = "TableGet"    -> build_table_get_rw_ops(s1, s.instr.arg)
          [] OTHER              -> build_generic_rw_ops(s1, get_rw_ops(s.instr))
    IN  IF r.res = Ok THEN r ELSE [step |-> s, res |-> r.res]

\* build without the ConsumeFuel arm: the step falls to the generic generator
build_no_consume_fuel_arm(s) ==
    LET c  == next_rw_counter(s)
        s1 == [c.step EXCEPT !.rw_rows =
                 Append(@, RwRow("Context", c.value, TRUE, s.call_id,
                                 "ProgramCounter", 0, pc_diff(s)))]
        op == s.instr.op
    IN  CASE op = "Call"        -> build_platform_rw_ops(s1, SysFuncIdxFrom(s.instr.arg))
          [] op = "Return"      -> build_return_rw_ops(s1)
          [] op = "MemoryCopy"  -> build_memory_copy_rw_ops(s1)
          [] op = "MemoryFill"  -> build_memory_fill_rw_ops(s1)
          [] op = "TableFill"   -> build_table_fill_rw_ops(s1, s.instr.arg)
          [] op = "TableCopy"   -> build_table_copy_rw_ops(s1, s.instr.arg)
          [] op = "TableGrow"   -> build_table_grow_rw_ops(s1, s.instr.arg)
          [] op = "TableGet"    -> build_table_get_rw_ops(s1, s.instr.arg)
          [] OTHER              -> build_generic_rw_ops(s1, get_rw_ops(s.instr))

\* build with ReturnIfNez taking the Return arm
build_return_if_nez_as_return(s) ==
    LET c  == next_rw_counter(s)
        s1 == [c.step EXCEPT !.rw_rows =
                 Append(@, RwRow("Context", c.value, TRUE, s.call_id,
                                 "ProgramCounter", 0, pc_diff(s)))]
        op == s.instr.op
    IN  CASE op = "Call"        -> build_platform_rw_ops(s1, SysFuncIdxFrom(s.instr.arg))
          [] op \in {"Return", "ReturnIfNez"} -> build_return_rw_ops(s1)
          [] op = "ConsumeFuel" -> build_consume_fuel_rw_ops(s1)
          [] op = "MemoryCopy"  -> build_memory_copy_rw_ops(s1)
          [] op = "MemoryFill"  -> build_memory_fill_rw_ops(s1)
          [] op = "TableFill"   -> build_table_fill_rw_ops(s1, s.instr.arg)
          [] op = "TableCopy"   -> build_table_copy_rw_ops(s1, s.instr.arg)
          [] op = "TableGrow"   -> build_table_grow_rw_ops(s1, s.instr.arg)
          [] op = "TableGet"    -> build_table_get_rw_ops(s1, s.instr.arg)
          [] OTHER              -> build_generic_rw_ops(s1, get_rw_ops(s.instr))

build(s) ==
    LET c  == next_rw_counter(s)
        s1 == [c.step EXCEPT !.rw_rows =
                 Append(@, RwRow("Context", c.value, TRUE, s.call_id,
                                 "ProgramCounter", 0, pc_diff(s)))]
        op == s.instr.op
    IN  CASE op = "Call"        -> build_platform_rw_ops(s1, SysFuncIdxFrom(s.instr.arg))
          [] op = "Return"      -> build_return_rw_ops(s1)
          [] op = "ConsumeFuel" -> build_consume_fuel_rw_ops(s1)
          [] op = "MemoryCopy"  -> build_memory_copy_rw_ops(s1)
          [] op = "MemoryFill"  -> build_memory_fill_rw_ops(s1)
          [] op = "TableFill"   -> build_table_fill_rw_ops(s1, s.instr.arg)
          [] op = "TableCopy"   -> build_table_copy_rw_ops(s1, s.instr.arg)
          [] op = "TableGrow"   -> build_table_grow_rw_ops(s1, s.instr.arg)
          [] op = "TableGet"    -> build_table_get_rw_ops(s1, s.instr.arg)
          [] OTHER              -> build_generic_rw_ops(s1, get_rw_ops(s.instr))

(***************************************************************************)
(* The engine: prepares one fresh ExecStep per instruction and invokes the *)
(* dispatcher once on it.                                                  *)
(***************************************************************************)
CallIds == {0, 1}
PcDiffs == {1, 2}
Offsets == {0, 1}

\* "hello" at offset 0, zero padded
HelloImage == [i \in 1..MemSize |-> IF i <= 5 THEN <<104, 101, 108, 108, 111>>[i] ELSE 0]
CountImage == [i \in 1..MemSize |-> i]
MemoryImages == {HelloImage, CountImage}

GenericOps ==
    {"I32Add", "I32Const", "Drop", "LocalGet", "MemoryGrow", "MemoryInit",
     "TableSet", "TableInit", "CallInternal", "CallIndirect", "ReturnCall",
     "ReturnIfNez", "Unreachable"}
TableOps == {"TableFill", "TableCopy", "TableGrow", "TableGet"}

Instructions ==
    {[op |-> "Call", arg |-> f] : f \in 0..Len(SysFuncTable)}
    \cup {[op |-> "ConsumeFuel", arg |-> a] : a \in 1..2}
    \cup {[op |-> o, arg |-> t] : o \in TableOps, t \in 0..1}
    \cup {[op |-> o, arg |-> 0] : o \in {"Return", "MemoryCopy", "MemoryFill"} \cup GenericOps}

NoArgs ==
    [dst |-> 0, src |-> 0, len |-> 0, memory |-> HelloImage,
     table |-> <<>>, table_size |-> 0, table_max |-> 0, fuel_remaining |-> 0]

\* the operands the engine resolves for an instruction
StepArgs(instr) ==
    CASE instr.op = "Call" ->
            {[NoArgs EXCEPT !.dst = d, !.len = l, !.memory = m] :
                d \in Offsets, l \in {n \in 0..MaxLen : n + 1 <= MemSize},
                m \in MemoryImages}
      [] instr.op = "MemoryCopy" ->
            {[NoArgs EXCEPT !.dst = d, !.src = s, !.len = l, !.memory = m] :
                d \in Offsets, s \in Offsets,
                l \in {n \in 0..MaxLen : n + 1 <= MemSize}, m \in MemoryImages}
      [] instr.op = "MemoryFill" ->
            {[NoArgs EXCEPT !.dst = d, !.src = v, !.len = l] :
                d \in Offsets, v \in {0, 255}, l \in 0..MaxLen}
      [] instr.op \in TableOps ->
            {[NoArgs EXCEPT !.dst = d, !.src = s, !.len = l,
                            !.table = [i \in 1..sz |-> 10 + i],
                            !.table_size = sz, !.table_max = MaxTableSize] :
                d \in Offsets, s \in Offsets, l \in 0..(MaxTableSize + 1),
                sz \in 0..MaxTableSize}
      [] instr.op = "ConsumeFuel" ->
            {[NoArgs EXCEPT !.fuel_remaining = f] : f \in 0..2}
      [] OTHER -> {NoArgs}

NewExecStep(instr, call_id, pcd, args, counter) ==
    [instr |-> instr, call_id |-> call_id, pc_diff |-> pcd,
     dst |-> args.dst, src |-> args.src, len |-> args.len,
     memory |-> args.memory, table |-> args.table,
     table_size |-> args.table_size, table_max |-> args.table_max,
     fuel_remaining |-> args.fuel_remaining,
     next_call_id |-> <<>>,
     rw_rows |-> <<>>, rw_counter |-> counter]

Idle     == [tag |-> "Idle", arg |-> "-"]
NotBuilt == [tag |-> "None", arg |-> "-"]

NoStep == NewExecStep([op |-> "None", arg |-> 0], 0, 0, NoArgs, 0)

RwInit ==
    /\ step = NoStep
    /\ build_result = Idle
    /\ global_rw_counter = 0
    /\ emitted = <<>>
    /\ steps_done = 0

\* the engine advanced one instruction: a fresh step, in any call frame
NewStep ==
    /\ build_result.tag = "Idle"
    /\ steps_done < MaxSteps
    /\ \E instr \in Instructions, call_id \in CallIds, pcd \in PcDiffs :
         \E args \in StepArgs(instr) :
            step' = NewExecStep(instr, call_id, pcd, args, global_rw_counter)
    /\ build_result' = NotBuilt
    /\ steps_done' = steps_done + 1
    /\ UNCHANGED <<global_rw_counter, emitted>>
    /\ UNCHANGED <<exec_vars, acc_vars, bal_vars, build_vars,
                   pair_vars, iset_vars, tr_vars>>

\* RwBuilder::build(&mut step); an error is fatal for the run
Build ==
    /\ build_result.tag = "None"
    /\ LET r == build(step)
       IN  /\ step' = r.step
           /\ build_result' = r.res
           /\ global_rw_counter' = r.step.rw_counter
           /\ emitted' = emitted \o [i \in 1..Len(r.step.rw_rows) |->
                                        r.step.rw_rows[i].rw_counter]
    /\ UNCHANGED steps_done
    /\ UNCHANGED <<exec_vars, acc_vars, bal_vars, build_vars,
                   pair_vars, iset_vars, tr_vars>>

\* the step's row log is drained into the witness and the step discarded
DrainStep ==
    /\ build_result.tag = "Ok"
    /\ step' = NoStep
    /\ build_result' = Idle
    /\ UNCHANGED <<global_rw_counter, emitted, steps_done>>
    /\ UNCHANGED <<exec_vars, acc_vars, bal_vars, build_vars,
                   pair_vars, iset_vars, tr_vars>>

(***************************************************************************)
(* ExitCode <-> i32 (fluentbase_types::ExitCode).  The numeric codes are    *)
(* representative: only Ok = 0 and the distinctness of the variants matter.*)
(***************************************************************************)
ExitCodeTable ==
    <<[name |-> "Ok",                  code |-> 0],
      [name |-> "Panic",               code |-> -71],
      [name |-> "ExecutionHalted",     code |-> -1001],
      [name |-> "TransactError",       code |-> -1004],
      [name |-> "OutputOverflow",      code |-> -1005],
      [name |-> "InsufficientBalance", code |-> -1012],
      [name |-> "UnknownError",        code |-> -1999]>>

\* ExitCode::into_i32
into_i32(name) ==
    LET e == CHOOSE x \in Range(ExitCodeTable) : x.name = name IN e.code

\* ExitCode::from(i32): codes that name no variant become UnknownError
ExitCodeFrom(code) ==
    IF \E x \in Range(ExitCodeTable) : x.code = code
    THEN (CHOOSE x \in Range(ExitCodeTable) : x.code = code).name
    ELSE "UnknownError"

(***************************************************************************)
(* SysExecHash::fn_impl                                                    *)
(*   child.run_err        Runtime::run_with_context returned Err           *)
(*   child.exit_code      execution_result.data().exit_code                *)
(*   child.output         execution_result.data().output()                 *)
(*   child.fuel_consumed  execution_result.fuel_consumed()  (<<>> = None)  *)
(***************************************************************************)
ExecOk(data, remaining) ==
    [tag |-> "Ok", code |-> "Ok", data |-> data, remaining |-> remaining]
ExecErr(code) ==
    [tag |-> "Err", code |-> code, data |-> <<>>, remaining |-> 0]

\* a panic of the host code: fn_impl does not return
ExecPanic == [tag |-> "Panic", code |-> "Ok", data |-> <<>>, remaining |-> 0]

\* Option<u64>::unwrap_or_default
unwrap_or_default(opt) == IF opt = <<>> THEN 0 ELSE opt[1]

\* u32::MAX at the model's width, and `as u32` (the low bits of the value)
U32_MAX == MaxFuel
as_u32(n) == n % (U32_MAX + 1)

STATE_MAIN == "STATE_MAIN"
STATE_DEPLOY == "STATE_DEPLOY"

\* the child context built with the caller's `state` argument
next_ctx_passes_state(c, bytecode_hash32, input, fuel_limit, state) ==
    [bytecode |-> bytecode_hash32, input |-> input, state |-> state,
     is_shared |-> FALSE, fuel_limit |-> fuel_limit, jzkt |-> <<c.jzkt[1]>>]

\* RuntimeContext::new(bytecode).with_input(input).with_state(STATE_MAIN)
\*   .with_is_shared(false).with_fuel_limit(fuel_limit)
\*   .with_jzkt(ctx.jzkt.clone().unwrap()); the `_state` argument is unused
next_ctx(c, bytecode_hash32, input, fuel_limit, state) ==
    [bytecode |-> bytecode_hash32, input |-> input, state |-> STATE_MAIN,
     is_shared |-> FALSE, fuel_limit |-> fuel_limit, jzkt |-> <<c.jzkt[1]>>]

\* ctx.consumed_fuel += fuel_consumed; ctx.return_data = output.clone();
\* Ok((output.clone(), fuel_limit - fuel_consumed)): u32 `+=` and `-`
fold(c, output, fuel_limit, fuel_consumed) ==
    IF overflow_checks /\ c.consumed_fuel + fuel_consumed > U32_MAX
    THEN [ctx |-> c, res |-> ExecPanic]
    ELSE LET folded == [c EXCEPT !.consumed_fuel = as_u32(@ + fuel_consumed),
                                 !.return_data = output]
         IN  IF overflow_checks /\ fuel_consumed > fuel_limit
             THEN [ctx |-> folded, res |-> ExecPanic]
             ELSE [ctx |-> folded,
                   res |-> ExecOk(output, as_u32(fuel_limit - fuel_consumed))]

\* fn_impl returning the child's output whatever its exit code
fn_impl_ignores_exit_code(c, return_len, fuel_limit, child) ==
    IF child.run_err
    THEN [ctx |-> c, res |-> ExecErr("TransactError")]
    ELSE
      LET fuel_consumed == as_u32(unwrap_or_default(child.fuel_consumed))
          output == child.output
      IN  IF return_len > 0 /\ Len(output) > return_len
          THEN [ctx |-> c, res |-> ExecErr("OutputOverflow")]
          ELSE fold(c, output, fuel_limit, fuel_consumed)

\* fn_impl folding fuel and output into the parent before its checks
fn_impl_folds_first(c, return_len, fuel_limit, child) ==
    IF child.run_err
    THEN [ctx |-> c, res |-> ExecErr("TransactError")]
    ELSE
      LET fuel_consumed == as_u32(unwrap_or_default(child.fuel_consumed))
          output == child.output
          folded == fold(c, output, fuel_limit, fuel_consumed).ctx
      IN  IF return_len > 0 /\ Len(output) > return_len
          THEN [ctx |-> folded, res |-> ExecErr("OutputOverflow")]
          ELSE IF child.exit_code /= into_i32("Ok")
          THEN [ctx |-> folded, res |-> ExecErr(ExitCodeFrom(child.exit_code))]
          ELSE fold(c, output, fuel_limit, fuel_consumed)

\* fn_impl testing the exit code before the output length
fn_impl_exit_code_first(c, return_len, fuel_limit, child) ==
    IF child.run_err
    THEN [ctx |-> c, res |-> ExecErr("TransactError")]
    ELSE
      LET fuel_consumed == as_u32(unwrap_or_default(child.fuel_consumed))
          output == child.output
      IN  IF child.exit_code /= into_i32("Ok")
          THEN [ctx |-> c, res |-> ExecErr(ExitCodeFrom(child.exit_code))]
          ELSE IF return_len > 0 /\ Len(output) > return_len
          THEN [ctx |-> c, res |-> ExecErr("OutputOverflow")]
          ELSE fold(c, output, fuel_limit, fuel_consumed)

fn_impl(c, return_len, fuel_limit, child) ==
    IF child.run_err
    THEN [ctx |-> c, res |-> ExecErr("TransactError")]
    ELSE
      LET fuel_consumed == as_u32(unwrap_or_default(child.fuel_consumed))
          output == child.output
      IN  IF return_len > 0 /\ Len(output) > return_len
          THEN [ctx |-> c, res |-> ExecErr("OutputOverflow")]
          ELSE IF child.exit_code /= into_i32("Ok")
          THEN [ctx |-> c, res |-> ExecErr(ExitCodeFrom(child.exit_code))]
          ELSE fold(c, output, fuel_limit, fuel_consumed)

ChildExitCodes == {0, -71, -1004, -1005, 7}
ChildOutputs == {[i \in 1..n |-> 40 + i] : n \in 0..MaxOutputLen}

\* what the child run can hand back under a fuel limit
ChildOutcomes(fuel_limit) ==
    {[run_err |-> TRUE, exit_code |-> 0, output |-> <<>>, fuel_consumed |-> <<>>]}
    \cup {[run_err |-> FALSE, exit_code |-> e, output |-> o, fuel_consumed |-> f] :
            e \in ChildExitCodes, o \in ChildOutputs,
            f \in {<<>>} \cup {<<n>> : n \in 0..fuel_limit}}

NoChild ==
    [run_err |-> FALSE, exit_code |-> 0, output |-> <<>>, fuel_consumed |-> <<>>]

NoNextCtx ==
    [bytecode |-> <<>>, input |-> <<>>, state |-> STATE_MAIN, is_shared |-> FALSE,
     fuel_limit |-> 0, jzkt |-> <<>>]

NoExecCall ==
    [return_len |-> 0, fuel_limit |-> 0, child |-> NoChild, next_ctx |-> NoNextCtx]

NoExecResult == [tag |-> "None", code |-> "Ok", data |-> <<>>, remaining |-> 0]

(***************************************************************************)
(* SysExecHash::fn_handler and the guest's linear memory                   *)
(***************************************************************************)
HandlerOk(code) == [tag |-> "Ok", code |-> code]
HandlerTrap == [tag |-> "Trap", code |-> 0]
HandlerPanic == [tag |-> "Panic", code |-> 0]
NoHandlerResult == [tag |-> "None", code |-> 0]

\* Caller::read_memory / write_memory fail with a Trap unless the region
\* [offset, offset + len) lies inside the memory
mem_in_range(mem, offset, len) == offset + len <= Len(mem)
read_guest(mem, offset, len) == SubSeq(mem, offset + 1, offset + len)
write_guest(mem, offset, data) ==
    [i \in 1..Len(mem) |->
        IF offset < i /\ i <= offset + Len(data) THEN data[i - offset] ELSE mem[i]]

\* LittleEndian::read_u32 / write_u32 over a 4-byte buffer
read_u32(bytes) == le_value(SubSeq(bytes, 1, 4))
write_u32(n) == le_bytes(n, 4)

\* fn_handler copying the output out whatever return_len is
fn_handler_always_copies_out(c, mem, a, child) ==
    LET NotCalled(res) ==
            [ctx |-> c, mem |-> mem, res |-> res,
             call |-> NoExecCall, impl |-> NoExecResult]
    IN  IF ~mem_in_range(mem, a.bytecode_hash32_offset, 32) THEN NotCalled(HandlerTrap)
        ELSE IF ~mem_in_range(mem, a.input_offset, a.input_len) THEN NotCalled(HandlerTrap)
        ELSE IF ~mem_in_range(mem, a.fuel_offset, 4) THEN NotCalled(HandlerTrap)
        ELSE
          LET bytecode_hash32 == read_guest(mem, a.bytecode_hash32_offset, 32)
              input == read_guest(mem, a.input_offset, a.input_len)
              fuel  == read_u32(read_guest(mem, a.fuel_offset, 4))
              r     == fn_impl(c, a.return_len, fuel, child)
              call  == [return_len |-> a.return_len, fuel_limit |-> fuel,
                        child |-> child,
                        next_ctx |-> next_ctx(c, bytecode_hash32, input, fuel, a.state)]
              Done(m, res) ==
                  [ctx |-> r.ctx, mem |-> m, res |-> res, call |-> call, impl |-> r.res]
          IN  CASE r.res.tag = "Panic" -> Done(mem, HandlerPanic)
                [] r.res.tag = "Err"   -> Done(mem, HandlerOk(into_i32(r.res.code)))
                [] OTHER ->
                     IF a.return_len > 0
                        /\ ~mem_in_range(mem, a.return_offset, Len(r.res.data))
                     THEN Done(mem, HandlerTrap)
                     ELSE
                       LET m1 == write_guest(mem, a.return_offset, r.res.data)
                       IN  IF ~mem_in_range(m1, a.fuel_offset, 4)
                           THEN Done(m1, HandlerTrap)
                           ELSE Done(write_guest(m1, a.fuel_offset,
                                                 write_u32(r.res.remaining)),
                                     HandlerOk(into_i32("Ok")))

\* fn_handler turning an error of fn_impl into a trap of the host
fn_handler_traps_on_error(c, mem, a, child) ==
    LET NotCalled(res) ==
            [ctx |-> c, mem |-> mem, res |-> res,
             call |-> NoExecCall, impl |-> NoExecResult]
    IN  IF ~mem_in_range(mem, a.bytecode_hash32_offset, 32) THEN NotCalled(HandlerTrap)
        ELSE IF ~mem_in_range(mem, a.input_offset, a.input_len) THEN NotCalled(HandlerTrap)
        ELSE IF ~mem_in_range(mem, a.fuel_offset, 4) THEN NotCalled(HandlerTrap)
        ELSE
          LET bytecode_hash32 == read_guest(mem, a.bytecode_hash32_offset, 32)
              input == read_guest(mem, a.input_offset, a.input_len)
              fuel  == read_u32(read_guest(mem, a.fuel_offset, 4))
              r     == fn_impl(c, a.return_len, fuel, child)
              call  == [return_len |-> a.return_len, fuel_limit |-> fuel,
                        child |-> child,
                        next_ctx |-> next_ctx(c, bytecode_hash32, input, fuel, a.state)]
              Done(m, res) ==
                  [ctx |-> r.ctx, mem |-> m, res |-> res, call |-> call, impl |-> r.res]
          IN  CASE r.res.tag = "Panic" -> Done(mem, HandlerPanic)
                [] r.res.tag = "Err"   -> Done(mem, HandlerTrap)
                [] OTHER ->
                     IF a.return_len > 0
                        /\ ~mem_in_range(mem, a.return_offset, Len(r.res.data))
                     THEN Done(mem, HandlerTrap)
                     ELSE
                       LET m1 == IF a.return_len > 0
                                 THEN write_guest(mem, a.return_offset, r.res.data)
                                 ELSE mem
                       IN  IF ~mem_in_range(m1, a.fuel_offset, 4)
                           THEN Done(m1, HandlerTrap)
                           ELSE Done(write_guest(m1, a.fuel_offset,
                                                 write_u32(r.res.remaining)),
                                     HandlerOk(into_i32("Ok")))

\* SysExecHash::fn_handler.  `child` is what Runtime::run_with_context hands
\* back for the child context fn_impl builds; `call` and `impl` record the
\* arguments and the result of fn_impl when the handler got that far.
fn_handler(c, mem, a, child) ==
    LET NotCalled(res) ==
            [ctx |-> c, mem |-> mem, res |-> res,
             call |-> NoExecCall, impl |-> NoExecResult]
    IN  IF ~mem_in_range(mem, a.bytecode_hash32_offset, 32) THEN NotCalled(HandlerTrap)
        ELSE IF ~mem_in_range(mem, a.input_offset, a.input_len) THEN NotCalled(HandlerTrap)
        ELSE IF ~mem_in_range(mem, a.fuel_offset, 4) THEN NotCalled(HandlerTrap)
        ELSE
          LET bytecode_hash32 == read_guest(mem, a.bytecode_hash32_offset, 32)
              input == read_guest(mem, a.input_offset, a.input_len)
              fuel  == read_u32(read_guest(mem, a.fuel_offset, 4))
              r     == fn_impl(c, a.return_len, fuel, child)
              call  == [return_len |-> a.return_len, fuel_limit |-> fuel,
                        child |-> child,
                        next_ctx |-> next_ctx(c, bytecode_hash32, input, fuel, a.state)]
              Done(m, res) ==
                  [ctx |-> r.ctx, mem |-> m, res |-> res, call |-> call, impl |-> r.res]
          IN  CASE r.res.tag = "Panic" -> Done(mem, HandlerPanic)
                [] r.res.tag = "Err"   -> Done(mem, HandlerOk(into_i32(r.res.code)))
                [] OTHER ->
                     IF a.return_len > 0
                        /\ ~mem_in_range(mem, a.return_offset, Len(r.res.data))
                     THEN Done(mem, HandlerTrap)
                     ELSE
                       LET m1 == IF a.return_len > 0
                                 THEN write_guest(mem, a.return_offset, r.res.data)
                                 ELSE mem
                       IN  IF ~mem_in_range(m1, a.fuel_offset, 4)
                           THEN Done(m1, HandlerTrap)
                           ELSE Done(write_guest(m1, a.fuel_offset,
                                                 write_u32(r.res.remaining)),
                                     HandlerOk(into_i32("Ok")))

\* the guest's memory: the code hash at 0, the input after it, then the fuel
\* word and the return buffer, which holds the longest child output
GuestMemSize == 38 + MaxOutputLen

GoodArgs ==
    [bytecode_hash32_offset |-> 0, input_offset |-> 32, input_len |-> 2,
     return_offset |-> 38, return_len |-> 0, fuel_offset |-> 34,
     state |-> STATE_MAIN]

\* the arguments a guest can pass: regions inside its memory, a return
\* buffer at the very end of it, and regions that run past the end
HandlerArgs ==
    {[GoodArgs EXCEPT !.return_len = n] : n \in 0..MaxReturnLen}
    \cup {[GoodArgs EXCEPT !.return_len = n, !.return_offset = GuestMemSize - 1] :
            n \in 1..MaxReturnLen}
    \cup {[GoodArgs EXCEPT !.state = STATE_DEPLOY],
          [GoodArgs EXCEPT !.bytecode_hash32_offset = GuestMemSize - 31],
          [GoodArgs EXCEPT !.input_offset = GuestMemSize - 1],
          [GoodArgs EXCEPT !.fuel_offset = GuestMemSize - 3]}

\* the memory the guest has prepared: its fuel word holds `fuel`
GuestMemory(a, fuel) ==
    LET image == [i \in 1..GuestMemSize |-> (i * 7) % 256]
    IN  IF mem_in_range(image, a.fuel_offset, 4)
        THEN write_guest(image, a.fuel_offset, write_u32(fuel))
        ELSE image

\* the fuel limit the parent itself runs under
ParentFuelLimits == {1, U32_MAX}

NewParentCtx(fuel_limit) ==
    [consumed_fuel |-> 0, return_data |-> <<>>, fuel_limit |-> fuel_limit,
     jzkt |-> <<"zktrie">>]

NotStarted == [tag |-> "NotStarted", code |-> 0]

ExecInit ==
    /\ ctx = NewParentCtx(0)
    /\ ctx_before = NewParentCtx(0)
    /\ exec_call = NoExecCall
    /\ exec_result = NoExecResult
    /\ exec_calls = 0
    /\ handler_call = GoodArgs
    /\ handler_result = NotStarted
    /\ guest_mem = GuestMemory(GoodArgs, 0)
    /\ guest_mem_before = GuestMemory(GoodArgs, 0)

\* the parent run is started under a fuel limit of its own
StartParent ==
    /\ handler_result = NotStarted
    /\ \E fuel_limit \in ParentFuelLimits :
         /\ ctx' = NewParentCtx(fuel_limit)
         /\ ctx_before' = NewParentCtx(fuel_limit)
    /\ handler_result' = NoHandlerResult
    /\ UNCHANGED <<exec_call, exec_result, exec_calls, handler_call,
                   guest_mem, guest_mem_before>>
    /\ UNCHANGED <<rw_vars, acc_vars, bal_vars, build_vars,
                   pair_vars, iset_vars, tr_vars>>

\* the guest calls _sys_exec_hash: fn_handler runs to its return
ExecHash ==
    /\ build_profile /= "unset"
    /\ handler_result.tag = "None"
    /\ exec_calls < MaxExecCalls
    /\ \E a \in HandlerArgs, fuel \in 0..U32_MAX :
         \E mem \in {GuestMemory(a, fuel)} :
            \E child \in (IF /\ mem_in_range(mem, a.bytecode_hash32_offset, 32)
                              /\ mem_in_range(mem, a.input_offset, a.input_len)
                              /\ mem_in_range(mem, a.fuel_offset, 4)
                           THEN ChildOutcomes(read_u32(read_guest(mem, a.fuel_offset, 4)))
                           ELSE {NoChild}) :
               \E h \in {fn_handler(ctx, mem, a, child)} :
                   /\ handler_call' = a
                   /\ guest_mem_before' = mem
                   /\ guest_mem' = h.mem
                   /\ ctx_before' = ctx
                   /\ ctx' = h.ctx
                   /\ exec_call' = h.call
                   /\ exec_result' = h.impl
                   /\ handler_result' = h.res
    /\ exec_calls' = exec_calls + 1
    /\ UNCHANGED <<rw_vars, acc_vars, bal_vars, build_vars,
                   pair_vars, iset_vars, tr_vars>>

\* the syscall has returned Ok(code) and the guest carries on; a trap or a
\* panic ends the parent's run
ExecResume ==
    /\ handler_result.tag = "Ok"
    /\ handler_result' = NoHandlerResult
    /\ handler_call' = GoodArgs
    /\ exec_result' = NoExecResult
    /\ exec_call' = NoExecCall
    /\ ctx_before' = ctx
    /\ guest_mem' = GuestMemory(GoodArgs, 0)
    /\ guest_mem_before' = GuestMemory(GoodArgs, 0)
    /\ UNCHANGED <<ctx, exec_calls>>
    /\ UNCHANGED <<rw_vars, acc_vars, bal_vars, build_vars,
                   pair_vars, iset_vars, tr_vars>>

(***************************************************************************)
(* Account field codec (crates/sdk/src/account.rs)                         *)
(***************************************************************************)
JZKT_ACCOUNT_FIELDS_COUNT == 6
JZKT_ACCOUNT_BALANCE_FIELD == 0
JZKT_ACCOUNT_NONCE_FIELD == 1
JZKT_ACCOUNT_SOURCE_CODE_SIZE_FIELD == 2
JZKT_ACCOUNT_SOURCE_CODE_HASH_FIELD == 3
JZKT_ACCOUNT_RWASM_CODE_SIZE_FIELD == 4
JZKT_ACCOUNT_RWASM_CODE_HASH_FIELD == 5

\* Bytes32::default()
ZeroBytes32 == [i \in 1..32 |-> 0]

\* LittleEndian::write_u64(&mut buf[..], n): overwrites buf[0..8]
write_u64(buf, n) ==
    [i \in 1..Len(buf) |-> IF i <= 8 THEN le_bytes(n, 8)[i] ELSE buf[i]]

\* LittleEndian::read_u64(&buf): reads buf[0..8]
read_u64(buf) == le_value(SubSeq(buf, 1, 8))

\* U256::as_le_slice / as_le_slice_mut: the 32 little-endian bytes of the value
as_le_slice(n) == le_bytes(n, 32)
from_le_slice(bytes) == le_value(bytes)

KECCAK_EMPTY == [i \in 1..32 |-> (197 + 13 * i) % 256]
POSEIDON_EMPTY == [i \in 1..32 |-> (32 + 7 * i) % 256]

\* Account::default() / Account::new(address)
NewAccount(address) ==
    [address |-> address, balance |-> 0, nonce |-> 0,
     source_code_size |-> 0, source_code_hash |-> KECCAK_EMPTY,
     rwasm_code_size |-> 0, rwasm_code_hash |-> POSEIDON_EMPTY]

\* Account::get_fields
get_fields(a) ==
    LET f0 == [i \in 1..JZKT_ACCOUNT_FIELDS_COUNT |-> ZeroBytes32]
        f1 == [f0 EXCEPT ![JZKT_ACCOUNT_RWASM_CODE_SIZE_FIELD + 1] =
                            write_u64(@, a.rwasm_code_size)]
        f2 == [f1 EXCEPT ![JZKT_ACCOUNT_NONCE_FIELD + 1] = write_u64(@, a.nonce)]
        f3 == [f2 EXCEPT ![JZKT_ACCOUNT_BALANCE_FIELD + 1] = as_le_slice(a.balance)]
        f4 == [f3 EXCEPT ![JZKT_ACCOUNT_SOURCE_CODE_HASH_FIELD + 1] = a.source_code_hash]
        f5 == [f4 EXCEPT ![JZKT_ACCOUNT_RWASM_CODE_HASH_FIELD + 1] = a.rwasm_code_hash]
    IN  [f5 EXCEPT ![JZKT_ACCOUNT_SOURCE_CODE_SIZE_FIELD + 1] =
                      write_u64(@, a.source_code_size)]

\* new_from_fields reading the nonce from the source-code-size field
new_from_fields_wrong_index(address, f) ==
    LET r0 == NewAccount(address)
        r1 == [r0 EXCEPT !.balance = from_le_slice(f[JZKT_ACCOUNT_BALANCE_FIELD + 1])]
        r2 == [r1 EXCEPT !.nonce = read_u64(f[JZKT_ACCOUNT_SOURCE_CODE_SIZE_FIELD + 1])]
        r3 == [r2 EXCEPT !.source_code_size =
                            read_u64(f[JZKT_ACCOUNT_SOURCE_CODE_SIZE_FIELD + 1])]
        r4 == [r3 EXCEPT !.source_code_hash = f[JZKT_ACCOUNT_SOURCE_CODE_HASH_FIELD + 1]]
        r5 == [r4 EXCEPT !.rwasm_code_size =
                            read_u64(f[JZKT_ACCOUNT_RWASM_CODE_SIZE_FIELD + 1])]
    IN  [r5 EXCEPT !.rwasm_code_hash = f[JZKT_ACCOUNT_RWASM_CODE_HASH_FIELD + 1]]

\* Account::new_from_fields (the caller passes JZKT_ACCOUNT_FIELDS_COUNT fields)
new_from_fields(address, f) ==
    LET r0 == NewAccount(address)
        r1 == [r0 EXCEPT !.balance = from_le_slice(f[JZKT_ACCOUNT_BALANCE_FIELD + 1])]
        r2 == [r1 EXCEPT !.nonce = read_u64(f[JZKT_ACCOUNT_NONCE_FIELD + 1])]
        r3 == [r2 EXCEPT !.source_code_size =
                            read_u64(f[JZKT_ACCOUNT_SOURCE_CODE_SIZE_FIELD + 1])]
        r4 == [r3 EXCEPT !.source_code_hash = f[JZKT_ACCOUNT_SOURCE_CODE_HASH_FIELD + 1]]
        r5 == [r4 EXCEPT !.rwasm_code_size =
                            read_u64(f[JZKT_ACCOUNT_RWASM_CODE_SIZE_FIELD + 1])]
    IN  [r5 EXCEPT !.rwasm_code_hash = f[JZKT_ACCOUNT_RWASM_CODE_HASH_FIELD + 1]]

\* sample values; every one fits the model checker's integers
Amounts == {0, 1, 255, 256, 65537, 2147483647}
CodeSizes == {0, 300, 16777216}
Hashes == {ZeroBytes32, KECCAK_EMPTY, POSEIDON_EMPTY, [i \in 1..32 |-> i]}
Addresses == {0, 1}

Accounts ==
    [address : Addresses, balance : Amounts, nonce : Amounts,
     source_code_size : CodeSizes, source_code_hash : Hashes,
     rwasm_code_size : CodeSizes, rwasm_code_hash : Hashes]

AccInit ==
    /\ account = NewAccount(0)
    /\ fields = get_fields(NewAccount(0))
    /\ decoded = NewAccount(0)
    /\ acc_pc = "idle"

\* some account of the world state is taken up
LoadAccount ==
    /\ acc_pc = "idle"
    /\ account' \in Accounts
    /\ acc_pc' = "loaded"
    /\ UNCHANGED <<fields, decoded>>
    /\ UNCHANGED <<rw_vars, exec_vars, bal_vars, build_vars,
                   pair_vars, iset_vars, tr_vars>>

\* account.get_fields()
GetFields ==
    /\ acc_pc = "loaded"
    /\ fields' = get_fields(account)
    /\ acc_pc' = "encoded"
    /\ UNCHANGED <<account, decoded>>
    /\ UNCHANGED <<rw_vars, exec_vars, bal_vars, build_vars,
                   pair_vars, iset_vars, tr_vars>>

\* Account::new_from_fields(account.address, &fields)
NewFromFields ==
    /\ acc_pc = "encoded"
    /\ decoded' = new_from_fields(account.address, fields)
    /\ acc_pc' = "decoded"
    /\ UNCHANGED <<account, fields>>
    /\ UNCHANGED <<rw_vars, exec_vars, bal_vars, build_vars,
                   pair_vars, iset_vars, tr_vars>>

(***************************************************************************)
(* Account arithmetic (crates/sdk/src/account.rs)                          *)
(***************************************************************************)
\* u64::MAX and U256::MAX at the model's widths
U64_MAX == 2^NonceBits - 1
U256_MAX == 2^BalanceBits - 1

AccOk(value) == [tag |-> "Ok", code |-> "Ok", value |-> value]
AccErr(code) == [tag |-> "Err", code |-> code, value |-> 0]
AccPanic == [tag |-> "Panic", code |-> "Ok", value |-> 0]
NoAccResult == [tag |-> "None", code |-> "Ok", value |-> 0]

\* U256::checked_add / U256::checked_sub: <<>> is None
checked_add(a, b) == IF a + b > U256_MAX THEN <<>> ELSE <<a + b>>
checked_sub(a, b) == IF a < b THEN <<>> ELSE <<a - b>>

\* Account::inc_nonce: `self.nonce += 1` comes first, the comparison with
\* u64::MAX after it
inc_nonce(a) ==
    LET prev_nonce == a.nonce
    IN  IF a.nonce + 1 > U64_MAX /\ overflow_checks
        THEN [acct |-> a, res |-> AccPanic]
        ELSE LET a1 == [a EXCEPT !.nonce = (@ + 1) % (U64_MAX + 1)]
             IN  IF a1.nonce = U64_MAX
                 THEN [acct |-> a1, res |-> AccErr("NonceOverflow")]
                 ELSE [acct |-> a1, res |-> AccOk(prev_nonce)]

\* Account::sub_balance
sub_balance(a, amount) ==
    LET d == checked_sub(a.balance, amount)
    IN  IF d = <<>>
        THEN [acct |-> a, res |-> AccErr("InsufficientBalance")]
        ELSE [acct |-> [a EXCEPT !.balance = d[1]], res |-> AccOk(0)]

\* Account::add_balance
add_balance(a, amount) ==
    LET s == checked_add(a.balance, amount)
    IN  IF s = <<>>
        THEN [acct |-> a, res |-> AccErr("OverflowPayment")]
        ELSE [acct |-> [a EXCEPT !.balance = s[1]], res |-> AccOk(0)]

NoAccOp == [name |-> "none", amount |-> 0]

BalInit ==
    /\ acct = [balance |-> 0, nonce |-> 0]
    /\ acct_before = [balance |-> 0, nonce |-> 0]
    /\ acct_op = NoAccOp
    /\ acct_result = NoAccResult

BuildInit == build_profile = "unset"

\* the program is built, with or without overflow checks
Compile ==
    /\ build_profile = "unset"
    /\ build_profile' \in {"debug", "release"}
    /\ UNCHANGED <<rw_vars, exec_vars, acc_vars, bal_vars,
                   pair_vars, iset_vars, tr_vars>>

\* account.inc_nonce()
IncNonce ==
    /\ build_profile /= "unset"
    /\ acct_result.tag /= "Panic"
    /\ LET r == inc_nonce(acct)
       IN  /\ acct' = r.acct
           /\ acct_result' = r.res
    /\ acct_before' = acct
    /\ acct_op' = [name |-> "inc_nonce", amount |-> 0]
    /\ UNCHANGED <<rw_vars, exec_vars, acc_vars, build_vars,
                   pair_vars, iset_vars, tr_vars>>

\* account.add_balance(amount)
AddBalance ==
    /\ build_profile /= "unset"
    /\ acct_result.tag /= "Panic"
    /\ \E amount \in 0..U256_MAX :
         LET r == add_balance(acct, amount)
         IN  /\ acct' = r.acct
             /\ acct_result' = r.res
             /\ acct_op' = [name |-> "add_balance", amount |-> amount]
    /\ acct_before' = acct
    /\ UNCHANGED <<rw_vars, exec_vars, acc_vars, build_vars,
                   pair_vars, iset_vars, tr_vars>>

\* account.sub_balance(amount)
SubBalance ==
    /\ build_profile /= "unset"
    /\ acct_result.tag /= "Panic"
    /\ \E amount \in 0..U256_MAX :
         LET r == sub_balance(acct, amount)
         IN  /\ acct' = r.acct
             /\ acct_result' = r.res
             /\ acct_op' = [name |-> "sub_balance", amount |-> amount]
    /\ acct_before' = acct
    /\ UNCHANGED <<rw_vars, exec_vars, acc_vars, build_vars,
                   pair_vars, iset_vars, tr_vars>>

(***************************************************************************)
(* Account transfer and creation (crates/sdk/src/account.rs)               *)
(***************************************************************************)
\* Account::transfer: the debit of `from` is made in place before the credit
\* of `to` is attempted
transfer(from, to, amount) ==
    LET d == sub_balance(from, amount)
    IN  IF d.res.tag = "Err"
        THEN [from |-> d.acct, to |-> to, res |-> d.res]
        ELSE LET c == add_balance(to, amount)
             IN  IF c.res.tag = "Err"
                 THEN [from |-> d.acct, to |-> c.acct, res |-> c.res]
                 ELSE [from |-> d.acct, to |-> c.acct, res |-> AccOk(0)]

\* Account::is_not_empty
is_not_empty(a) ==
    \/ a.nonce /= 0
    \/ a.source_code_hash /= KECCAK_EMPTY
    \/ a.rwasm_code_hash /= POSEIDON_EMPTY

\* calc_create_address / calc_create2_address: the derived address is a
\* function of exactly these arguments
calc_create_address(address, nonce) == <<"create", address, nonce>>
calc_create2_address(address, salt, hash) == <<"create2", address, salt, hash>>

\* AccountManager::account: the account stored under `address`; `am` holds
\* the fields the manager has for it
am_account(am, address) == [am EXCEPT !.address = address]

NoCallee == NewAccount("none")

\* Account::create_account; salt_hash is <<>> (None) or <<salt, hash>>
create_account(am, c, amount, salt_hash) ==
    IF c.balance < amount
    THEN [caller |-> c, callee |-> NoCallee, res |-> AccErr("InsufficientBalance")]
    ELSE LET n == inc_nonce(c)
         IN  IF n.res.tag /= "Ok"
             THEN [caller |-> n.acct, callee |-> NoCallee, res |-> n.res]
             ELSE LET old_nonce == n.res.value
                      callee_address ==
                          IF salt_hash /= <<>>
                          THEN calc_create2_address(c.address, salt_hash[1], salt_hash[2])
                          ELSE calc_create_address(c.address, old_nonce)
                      loaded == am_account(am, callee_address)
                  IN  IF is_not_empty(loaded)
                      THEN [caller |-> n.acct, callee |-> loaded,
                            res |-> AccErr("CreateCollision")]
                      ELSE LET t == transfer(n.acct, loaded, amount)
                           IN  IF t.res.tag = "Err"
                               THEN [caller |-> t.from, callee |-> t.to, res |-> t.res]
                               ELSE [caller |-> t.from,
                                     callee |-> [t.to EXCEPT !.nonce = 1],
                                     res |-> AccOk(0)]

\* the accounts the operations are called with; each run makes one call
Balances == 0..U256_MAX
Nonces == 0..U64_MAX
Holders == {[NewAccount(1) EXCEPT !.balance = b] : b \in Balances}
Receivers == {[NewAccount(2) EXCEPT !.balance = b] : b \in Balances}
Callers == {[NewAccount(1) EXCEPT !.balance = b, !.nonce = n] :
                b \in Balances, n \in Nonces}
StoredAccounts ==
    {[NewAccount("any") EXCEPT !.balance = b, !.nonce = n,
                               !.source_code_hash = s, !.rwasm_code_hash = r] :
        b \in {0, 1, U256_MAX}, n \in {0, 1},
        s \in {KECCAK_EMPTY, ZeroBytes32}, r \in {POSEIDON_EMPTY, ZeroBytes32}}
SaltHashes == {<<>>, <<1, ZeroBytes32>>}

NoPairOp == [name |-> "none", amount |-> 0, salt_hash |-> <<>>]

PairInit ==
    /\ caller = NewAccount(1)
    /\ callee = NoCallee
    /\ pair_before = [caller |-> NewAccount(1), callee |-> NoCallee]
    /\ pair_op = NoPairOp
    /\ pair_result = NoAccResult

\* Account::transfer(&mut from, &mut to, amount)
Transfer ==
    /\ pair_op = NoPairOp
    /\ \E from \in Holders, to \in Receivers, amount \in Balances :
         \E t \in {transfer(from, to, amount)} :
           /\ caller' = t.from
           /\ callee' = t.to
           /\ pair_result' = t.res
           /\ pair_before' = [caller |-> from, callee |-> to]
           /\ pair_op' = [name |-> "transfer", amount |-> amount, salt_hash |-> <<>>]
    /\ UNCHANGED <<rw_vars, exec_vars, acc_vars, bal_vars, iset_vars, tr_vars,
                   build_vars>>

\* Account::create_account(am, &mut caller, amount, salt_hash)
CreateAccount ==
    /\ build_profile /= "unset"
    /\ pair_op = NoPairOp
    /\ \E c \in Callers, am \in StoredAccounts, amount \in Balances,
          salt_hash \in SaltHashes :
         \E r \in {create_account(am, c, amount, salt_hash)} :
           /\ caller' = r.caller
           /\ callee' = r.callee
           /\ pair_result' = r.res
           /\ pair_before' = [caller |-> c, callee |-> am]
           /\ pair_op' = [name |-> "create_account", amount |-> amount,
                          salt_hash |-> salt_hash]
    /\ UNCHANGED <<rw_vars, exec_vars, acc_vars, bal_vars, iset_vars, tr_vars,
                   build_vars>>

(***************************************************************************)
(* InstructionSet (rwasm/src/rwasm/instruction_set.rs)                     *)
(* metas is <<>> for None and <<m>> for Some(m).                           *)
(***************************************************************************)
IsetOk(value) == [tag |-> "Ok", value |-> value]
IsetPanic == [tag |-> "Panic", value |-> 0]
NoIsetResult == [tag |-> "None", value |-> 0]

\* InstructionSet::new / Default
NewInstructionSet == [instr |-> <<>>, metas |-> <<>>]

\* From<Vec<Instruction>> for InstructionSet
from_vec(value) == [instr |-> value, metas |-> <<>>]

\* InstructionSet::len
len(s) == Len(s.instr)

\* InstructionSet::push
push(s, opcode) ==
    LET opcode_pos == len(s)
    IN  [set |-> [s EXCEPT !.instr = Append(@, opcode)], res |-> IsetOk(opcode_pos)]

\* InstructionSet::push_with_meta: the assert_eq! runs after both vectors
\* have been pushed to
push_with_meta(s, opcode, meta) ==
    LET p == push(s, opcode)
        s1 == IF p.set.metas /= <<>>
              THEN [p.set EXCEPT !.metas = <<Append(@[1], meta)>>]
              ELSE [p.set EXCEPT !.metas = <<(<<meta>>)>>]
        metas_len == Len(s1.metas[1])
    IN  IF Len(s1.instr) /= metas_len
        THEN [set |-> s1, res |-> IsetPanic]
        ELSE [set |-> s1, res |-> p.res]

\* impl_opcode!: every op_* method pushes its instruction and returns ()
op_method(s, opcode) == [set |-> push(s, opcode).set, res |-> IsetOk(0)]

\* InstructionSet::extend
extend(s, with) == [s EXCEPT !.instr = @ \o with.instr]

\* InstructionSet::finalize
finalize(s) == s.instr

Opcodes == {"I32Extend8S", "SanitizerStackCheck"}
InstrMetas == {7}
ExtendWith == {from_vec(<<"I64Extend32S">>), from_vec(<<"I64Extend32S", "I64Extend32S">>)}

NoIsetOp == [name |-> "none"]

IsetInit ==
    /\ iset = NewInstructionSet
    /\ iset_before = NewInstructionSet
    /\ iset_op = NoIsetOp
    /\ iset_result = NoIsetResult

\* set.push(opcode)
Push ==
    /\ iset_result.tag /= "Panic"
    /\ len(iset) < MaxInstr
    /\ \E opcode \in Opcodes :
         LET r == push(iset, opcode)
         IN  /\ iset' = r.set
             /\ iset_result' = r.res
    /\ iset_before' = iset
    /\ iset_op' = [name |-> "push"]
    /\ UNCHANGED <<rw_vars, exec_vars, acc_vars, bal_vars, pair_vars, tr_vars,
                   build_vars>>

\* set.push_with_meta(opcode, meta)
PushWithMeta ==
    /\ iset_result.tag /= "Panic"
    /\ len(iset) < MaxInstr
    /\ \E opcode \in Opcodes, meta \in InstrMetas :
         LET r == push_with_meta(iset, opcode, meta)
         IN  /\ iset' = r.set
             /\ iset_result' = r.res
    /\ iset_before' = iset
    /\ iset_op' = [name |-> "push_with_meta"]
    /\ UNCHANGED <<rw_vars, exec_vars, acc_vars, bal_vars, pair_vars, tr_vars,
                   build_vars>>

\* set.op_i32_extend8_s(), set.op_sanitizer_stack_check(v), ...
Opcode ==
    /\ iset_result.tag /= "Panic"
    /\ len(iset) < MaxInstr
    /\ \E opcode \in Opcodes :
         LET r == op_method(iset, opcode)
         IN  /\ iset' = r.set
             /\ iset_result' = r.res
    /\ iset_before' = iset
    /\ iset_op' = [name |-> "op"]
    /\ UNCHANGED <<rw_vars, exec_vars, acc_vars, bal_vars, pair_vars, tr_vars,
                   build_vars>>

\* set.extend(with)
Extend ==
    /\ iset_result.tag /= "Panic"
    /\ \E with \in ExtendWith :
         /\ len(iset) + len(with) <= MaxInstr
         /\ iset' = extend(iset, with)
    /\ iset_result' = IsetOk(0)
    /\ iset_before' = iset
    /\ iset_op' = [name |-> "extend"]
    /\ UNCHANGED <<rw_vars, exec_vars, acc_vars, bal_vars, pair_vars, tr_vars,
                   build_vars>>

\* set.finalize()
Finalize ==
    /\ iset_result.tag /= "Panic"
    /\ iset_result' = IsetOk(finalize(iset))
    /\ iset_before' = iset
    /\ iset_op' = [name |-> "finalize"]
    /\ UNCHANGED iset
    /\ UNCHANGED <<rw_vars, exec_vars, acc_vars, bal_vars, pair_vars, tr_vars,
                   build_vars>>

(***************************************************************************)
(* Translator::init_code_snippets (rwasm/evm/src/translator/translator.rs) *)
(***************************************************************************)
\* the table init_code_snippets maps over, in its order (its first entries)
CodeSnippets ==
    <<"EXP", "MOD", "SMOD", "MUL", "MULMOD", "ADD", "ADDMOD", "SIGNEXTEND",
      "SUB", "DIV", "SDIV", "SHL", "SHR", "NOT", "AND">>
SnippetTable == SubSeq(CodeSnippets, 1, MaxSnippets)

\* the bytecode the compiler produced for a snippet: n instructions, n >= 1
\* (a translated function ends with its return)
CompiledSnippet(opcode, n) == from_vec([i \in 1..n |-> <<opcode, i>>])

\* the closure initiate_subroutines of init_code_snippets, applied to the
\* translator's two fields
initiate_subroutines_end_past(map, sis, opcode, instruction_set, fn_beginning_offset) ==
    IF opcode \in DOMAIN map
    THEN [map |-> map, sis |-> sis, panic |-> TRUE]
    ELSE LET l == Len(sis.instr)
             subroutine_data ==
                 [rel_entry_offset |-> fn_beginning_offset,
                  begin_offset |-> l,
                  end_offset |-> l + len(instruction_set),
                  instruction_set |-> instruction_set]
         IN  [map |-> [o \in DOMAIN map \cup {opcode} |->
                          IF o = opcode THEN subroutine_data ELSE map[o]],
              sis |-> extend(sis, subroutine_data.instruction_set),
              panic |-> FALSE]
initiate_subroutines(map, sis, opcode, instruction_set, fn_beginning_offset) ==
    IF opcode \in DOMAIN map
    THEN [map |-> map, sis |-> sis, panic |-> TRUE]
    ELSE LET l == Len(sis.instr)
             subroutine_data ==
                 [rel_entry_offset |-> fn_beginning_offset,
                  begin_offset |-> l,
                  end_offset |-> l + len(instruction_set) - 1,
                  instruction_set |-> instruction_set]
         IN  [map |-> [o \in DOMAIN map \cup {opcode} |->
                          IF o = opcode THEN subroutine_data ELSE map[o]],
              sis |-> extend(sis, subroutine_data.instruction_set),
              panic |-> FALSE]

\* Translator::new, before s.init_code_snippets()
TrInit ==
    /\ opcode_to_subroutine_data = <<>>
    /\ subroutines_instruction_set = NewInstructionSet
    /\ snippets_done = 0
    /\ snippets_panicked = FALSE

\* one iteration of the `.map(...)` over the table: parse, compile and
\* register the next snippet
InitiateSubroutines ==
    /\ ~snippets_panicked
    /\ snippets_done < Len(SnippetTable)
    /\ \E n \in 1..MaxSubLen :
       \E fn_beginning_offset \in {0, n - 1} :
         LET opcode == SnippetTable[snippets_done + 1]
             r == initiate_subroutines(opcode_to_subroutine_data,
                                       subroutines_instruction_set, opcode,
                                       CompiledSnippet(opcode, n),
                                       fn_beginning_offset)
         IN  /\ opcode_to_subroutine_data' = r.map
             /\ subroutines_instruction_set' = r.sis
             /\ snippets_panicked' = r.panic
    /\ snippets_done' = snippets_done + 1
    /\ UNCHANGED <<rw_vars, exec_vars, acc_vars, bal_vars, pair_vars, iset_vars,
                   build_vars>>

(***************************************************************************)
(* Specifications                                                          *)
(***************************************************************************)
Init ==
    /\ RwInit /\ ExecInit /\ AccInit /\ BalInit /\ PairInit /\ IsetInit /\ TrInit
    /\ BuildInit

RwNext == NewStep \/ Build \/ DrainStep
ExecNext == Compile \/ StartParent \/ ExecHash \/ ExecResume
AccNext == LoadAccount \/ GetFields \/ NewFromFields
BalNext == Compile \/ IncNonce \/ AddBalance \/ SubBalance
PairNext == Compile \/ Transfer \/ CreateAccount
IsetNext == Push \/ PushWithMeta \/ Opcode \/ Extend \/ Finalize
TrNext == InitiateSubroutines

Next == RwNext \/ ExecNext \/ AccNext \/ BalNext \/ PairNext \/ IsetNext \/ TrNext

SpecRw == Init /\ [][RwNext]_vars
SpecExec == Init /\ [][ExecNext]_vars
SpecAcc == Init /\ [][AccNext]_vars
SpecBal == Init /\ [][BalNext]_vars
SpecPair == Init /\ [][PairNext]_vars
SpecIset == Init /\ [][IsetNext]_vars
SpecTr == Init /\ [][TrNext]_vars
Spec == Init /\ [][Next]_vars

(***************************************************************************)
(* Properties of the trace builder (checked under SpecRw)                  *)
(***************************************************************************)
Built == build_result.tag \notin {"Idle", "None"}

IsProgramCounterRow(row, s) ==
    /\ row.kind = "Context"
    /\ row.tag = "ProgramCounter"
    /\ row.is_write = TRUE
    /\ row.call_id = s.call_id
    /\ row.value = s.pc_diff

\* C1: a step's log is empty when build is entered, and once build has
\* returned (Ok or an error) the first row of the log is the Context row
\* ProgramCounter, write, call_id = step.call_id, value = the step's pc delta.
C1_ProgramCounterRowFirst ==
    /\ build_result.tag = "None" => step.rw_rows = <<>>
    /\ Built => /\ Len(step.rw_rows) >= 1
                /\ IsProgramCounterRow(step.rw_rows[1], step)

C1_Witness ==
    /\ build_result.tag = "OutOfBounds"
    /\ step.call_id = 1
    /\ step.pc_diff = 2
    /\ IsProgramCounterRow(step.rw_rows[1], step)

\* C2: over the whole run the rw_counter values, in emission order, go up by
\* exactly 1 from row to row, and the allocator stands exactly one past the
\* last emitted row (no value is allocated without a row consuming it).
C2_CountersConsecutive ==
    /\ \A i \in 1..(Len(emitted) - 1) : emitted[i + 1] = emitted[i] + 1
    /\ emitted /= <<>> => global_rw_counter = emitted[Len(emitted)] + 1
    /\ Built => /\ step.rw_counter = global_rw_counter
                /\ \A i \in 1..Len(step.rw_rows) :
                      step.rw_rows[i].rw_counter =
                          emitted[Len(emitted) - Len(step.rw_rows) + i]

C2_Witness ==
    /\ steps_done = 2
    /\ build_result.tag = "Ok"
    /\ step.call_id = 1
    /\ Len(step.rw_rows) >= 3
    /\ Len(emitted) > Len(step.rw_rows) + 1

\* C3: a MemoryCopy step of length L has, after the leading context row,
\* exactly L Memory rows whose addresses are dst_offset + i, i = 0..L-1,
\* ascending; with L = 0 the log is the context row alone.
C3_MemoryCopyRows ==
    (Built /\ step.instr.op = "MemoryCopy") =>
        /\ Len(step.rw_rows) = 1 + step.len
        /\ \A i \in 0..(step.len - 1) :
              /\ step.rw_rows[2 + i].kind = "Memory"
              /\ step.rw_rows[2 + i].address = step.dst + i

C3_Witness ==
    /\ Built
    /\ step.instr.op = "MemoryCopy"
    /\ step.len = 3
    /\ step.dst = 1
    /\ step.rw_rows[4].address = 3

\* C4: a TableGrow step with current size S and delta N such that S + N is
\* above the table's declared maximum ends with a bounds error and its log
\* holds the leading ProgramCounter row only.
C4_TableGrowOutOfBounds ==
    (Built /\ step.instr.op = "TableGrow"
           /\ step.table_size + step.len > step.table_max) =>
        /\ build_result.tag = "OutOfBounds"
        /\ Len(step.rw_rows) = 1
        /\ IsProgramCounterRow(step.rw_rows[1], step)

C4_Witness ==
    /\ Built
    /\ step.instr = [op |-> "TableGrow", arg |-> 0]
    /\ step.table_size = 1
    /\ step.len = 2
    /\ build_result.tag = "OutOfBounds"

\* C9: a Call resolving to SYS_WRITE over n input bytes at an offset emits,
\* after the context row, n Memory read rows (one per byte, ascending, with
\* the bytes of the region) and then one Syscall row, and build returns Ok.
C9_SysWriteRows ==
    (Built /\ step.instr.op = "Call"
           /\ SysFuncIdxFrom(step.instr.arg) = "SYS_WRITE") =>
        /\ build_result = Ok
        /\ Len(step.rw_rows) = 1 + step.len + 1
        /\ \A i \in 0..(step.len - 1) :
              /\ step.rw_rows[2 + i].kind = "Memory"
              /\ step.rw_rows[2 + i].is_write = FALSE
              /\ step.rw_rows[2 + i].address = step.dst + i
              /\ step.rw_rows[2 + i].value = step.memory[step.dst + i + 1]
        /\ step.rw_rows[2 + step.len].kind = "Syscall"

C9_Witness ==
    /\ Built
    /\ step.instr.op = "Call"
    /\ SysFuncIdxFrom(step.instr.arg) = "SYS_WRITE"
    /\ step.dst = 0
    /\ step.len = 5
    /\ [i \in 1..5 |-> step.rw_rows[1 + i].value] = <<104, 101, 108, 108, 111>>
    /\ step.rw_rows[7].kind = "Syscall"
    /\ build_result = Ok

KnownSysCalls ==
    {"RWASM_TRANSACT", "SYS_HALT", "SYS_WRITE", "SYS_READ", "WASI_PROC_EXIT",
     "WASI_FD_WRITE", "WASI_ENVIRON_SIZES_GET", "WASI_ENVIRON_GET",
     "WASI_ARGS_SIZES_GET", "WASI_ARGS_GET"}

\* C10: a Call whose resolved SysFuncIdx is outside the known set makes build
\* return UnknownSysCall carrying that id, the log then holding the leading
\* ProgramCounter row only; an id inside the set never gives UnknownSysCall.
C10_UnknownSysCall ==
    (Built /\ step.instr.op = "Call") =>
        LET sys_func == SysFuncIdxFrom(step.instr.arg)
        IN  IF sys_func \in KnownSysCalls
            THEN build_result.tag /= "UnknownSysCall"
            ELSE /\ build_result = Err("UnknownSysCall", sys_func)
                 /\ Len(step.rw_rows) = 1
                 /\ IsProgramCounterRow(step.rw_rows[1], step)

C10_Witness ==
    /\ Built
    /\ step.instr.op = "Call"
    /\ build_result = Err("UnknownSysCall", "ZKTRIE_STORE")
    /\ Len(step.rw_rows) = 1

IsPrefix(a, b) == Len(a) <= Len(b) /\ SubSeq(b, 1, Len(a)) = a

BuildFailed == Built /\ build_result /= Ok

\* C11: the row log is append-only and is never rolled back.  Across every
\* step of the run the rows emitted so far stay a prefix of the rows emitted
\* afterwards and the allocator never goes down; a call of build keeps what
\* the step's log held, adds at least the ProgramCounter row even when its
\* generator fails, and moves the allocator by exactly the number of rows it
\* appended; once build has returned an error the step and the log no
\* longer change.
C11_AppendOnly ==
    [][/\ IsPrefix(emitted, emitted')
       /\ global_rw_counter' >= global_rw_counter
       /\ build_result.tag = "None" =>
            /\ IsPrefix(step.rw_rows, step'.rw_rows)
            /\ step'.rw_counter >= step.rw_counter
            /\ Len(step'.rw_rows) >= 1
            /\ Len(emitted') = Len(emitted) + Len(step'.rw_rows)
            /\ global_rw_counter' = global_rw_counter + Len(step'.rw_rows)
       /\ BuildFailed => step' = step /\ emitted' = emitted]_vars

C11_Witness ==
    /\ BuildFailed
    /\ steps_done = 2
    /\ Len(step.rw_rows) = 1
    /\ Len(emitted) > Len(step.rw_rows)
    /\ global_rw_counter = Len(emitted)

\* C14: build never changes the step's call_id, a Return included, and every
\* row of the step's log, the leading ProgramCounter row first, carries the
\* call_id the step had when build was entered.
C14_RowsCarryCallId ==
    [][build_result.tag = "None" =>
         /\ step'.call_id = step.call_id
         /\ Len(step'.rw_rows) >= 1
         /\ \A i \in 1..Len(step'.rw_rows) :
               step'.rw_rows[i].call_id = step.call_id]_vars

C14_Witness ==
    /\ Built
    /\ step.instr.op = "Return"
    /\ step.call_id = 1
    /\ step.rw_rows[1].call_id = 1

\* C15: a ConsumeFuel step whose amount exceeds the remaining fuel fails with
\* OutOfFuel, appends nothing after the ProgramCounter row and leaves the
\* remaining fuel as it was (no clamping); otherwise it succeeds with one
\* Context row ConsumedFuel whose value is the amount.
C15_ConsumeFuel ==
    (Built /\ step.instr.op = "ConsumeFuel") =>
        IF step.fuel_remaining < step.instr.arg
        THEN /\ build_result = Err("OutOfFuel", "-")
             /\ Len(step.rw_rows) = 1
        ELSE /\ build_result = Ok
             /\ Len(step.rw_rows) = 2
             /\ step.rw_rows[2].kind = "Context"
             /\ step.rw_rows[2].tag = "ConsumedFuel"
             /\ step.rw_rows[2].is_write
             /\ step.rw_rows[2].value = step.instr.arg

C15_Witness ==
    /\ Built
    /\ step.instr.op = "ConsumeFuel"
    /\ step.fuel_remaining = 1
    /\ step.instr.arg = 2
    /\ build_result = Err("OutOfFuel", "-")

\* the rows a step holds after its leading ProgramCounter row
GeneratorRows == SubSeq(step.rw_rows, 2, Len(step.rw_rows))

\* C16: after the leading row the step holds the rows of exactly one
\* generator, the one its instruction kind selects: a Call ends in the
\* Syscall row of its platform function or fails with UnknownSysCall for that
\* function; a Return adds nothing; ConsumeFuel adds only its Context row;
\* MemoryCopy, MemoryFill, TableFill, TableCopy, TableGrow and TableGet add
\* the rows of their own bulk generator; every other kind adds one Stack row
\* per entry of the instruction's rw-ops shape, in that order.
C16_OneGeneratorPerKind ==
    Built =>
      LET op == step.instr.op
          g  == GeneratorRows
          n  == Len(g)
          AllKind(k) == \A i \in 1..n : g[i].kind = k
          BulkResult == build_result = Ok \/ (build_result.tag = "OutOfBounds" /\ n = 0)
      IN  CASE op = "Call" ->
                 IF SysFuncIdxFrom(step.instr.arg) \in KnownSysCalls
                 THEN /\ build_result = Ok
                      /\ n >= 1
                      /\ g[n].kind = "Syscall"
                      /\ \A i \in 1..(n - 1) : g[i].kind = "Memory"
                 ELSE /\ n = 0
                      /\ build_result =
                           Err("UnknownSysCall", SysFuncIdxFrom(step.instr.arg))
            [] op = "Return" -> n = 0 /\ build_result = Ok
            [] op = "ConsumeFuel" ->
                 /\ AllKind("Context")
                 /\ \A i \in 1..n : g[i].tag = "ConsumedFuel"
                 /\ build_result = Ok \/ (build_result.tag = "OutOfFuel" /\ n = 0)
            [] op = "MemoryCopy" ->
                 /\ build_result = Ok /\ n = step.len /\ AllKind("Memory")
                 /\ \A i \in 1..n : /\ g[i].address = step.dst + i - 1
                                    /\ g[i].value = read_memory(step, step.src + i - 1)
            [] op = "MemoryFill" ->
                 /\ build_result = Ok /\ n = step.len /\ AllKind("Memory")
                 /\ \A i \in 1..n : /\ g[i].address = step.dst + i - 1
                                    /\ g[i].value = step.src
            [] op = "TableFill" ->
                 /\ BulkResult /\ AllKind("Table")
                 /\ build_result = Ok =>
                      /\ n = step.len
                      /\ \A i \in 1..n : /\ g[i].address = step.dst + i - 1
                                         /\ g[i].value = step.src
            [] op = "TableCopy" ->
                 /\ BulkResult /\ AllKind("Table")
                 /\ build_result = Ok =>
                      /\ n = step.len
                      /\ \A i \in 1..n :
                            /\ g[i].address = step.dst + i - 1
                            /\ g[i].value = table_element(step, step.src + i - 1)
            [] op = "TableGrow" ->
                 /\ BulkResult /\ AllKind("Table")
                 /\ build_result = Ok =>
                      /\ n = step.len
                      /\ \A i \in 1..n : g[i].address = step.table_size + i - 1
            [] op = "TableGet" ->
                 /\ BulkResult /\ AllKind("Table")
                 /\ build_result = Ok =>
                      n = 1 /\ ~g[1].is_write /\ g[1].address = step.dst
            [] OTHER ->
                 /\ build_result = Ok
                 /\ n = Len(get_rw_ops(step.instr))
                 /\ \A i \in 1..n : /\ g[i].kind = "Stack"
                                    /\ g[i].is_write = get_rw_ops(step.instr)[i]

C16_Witness ==
    /\ Built
    /\ step.instr.op = "ReturnIfNez"
    /\ Len(GeneratorRows) = 1
    /\ GeneratorRows[1].kind = "Stack"

\* C17: a Return step, in the outermost frame or a nested one, always
\* succeeds with the ProgramCounter row as its only row: no CallDepth row,
\* the counter one past the value it had at entry, and no next call id.
C17_ReturnEmitsOnlyProgramCounter ==
    (Built /\ step.instr.op = "Return") =>
        /\ build_result = Ok
        /\ Len(step.rw_rows) = 1
        /\ IsProgramCounterRow(step.rw_rows[1], step)
        /\ step.rw_counter = step.rw_rows[1].rw_counter + 1
        /\ global_rw_counter = step.rw_counter
        /\ step.next_call_id = <<>>

C17_Witness ==
    /\ Built
    /\ step.instr.op = "Return"
    /\ step.call_id > 0
    /\ build_result = Ok
    /\ Len(step.rw_rows) = 1
    /\ Len(emitted) > 1

(***************************************************************************)
(* Properties of the account codec (checked under SpecAcc)                 *)
(***************************************************************************)
\* C5: new_from_fields(a.address, get_fields(a)) has the address and the six
\* fields of a, and the field array holds balance at index 0, nonce at 1,
\* source size at 2, source hash at 3, rwasm size at 4, rwasm hash at 5.
C5_FieldsRoundTrip ==
    /\ acc_pc = "decoded" => decoded = account
    /\ acc_pc \in {"encoded", "decoded"} =>
          /\ Len(fields) = 6
          /\ le_value(fields[1]) = account.balance
          /\ le_value(fields[2]) = account.nonce
          /\ le_value(fields[3]) = account.source_code_size
          /\ fields[4] = account.source_code_hash
          /\ le_value(fields[5]) = account.rwasm_code_size
          /\ fields[6] = account.rwasm_code_hash

C5_Witness ==
    /\ acc_pc = "decoded"
    /\ account.address = 1
    /\ account.balance = 2147483647
    /\ account.nonce = 65537
    /\ account.source_code_size = 300
    /\ account.rwasm_code_size = 16777216
    /\ account.source_code_hash /= account.rwasm_code_hash
    /\ decoded = account

(***************************************************************************)
(* Properties of the nested execution (checked under SpecExec)             *)
(***************************************************************************)
Called == exec_result.tag /= "None"
ChildFinished == Called /\ ~exec_call.child.run_err
ChildFailed == ChildFinished /\ exec_call.child.exit_code /= 0
OutputExceeds == ChildFinished /\ Len(exec_call.child.output) > exec_call.return_len

\* C6 as stated: whenever the child finishes with a non-success exit code,
\* fn_impl fails with TransactError.
C6_AsStated ==
    ChildFailed => (exec_result.tag = "Err" /\ exec_result.code = "TransactError")

\* C6 as amended: whenever the child finishes with a non-success exit code,
\* fn_impl fails, never succeeds; the error is OutputOverflow when
\* return_len > 0 and the output is longer than return_len, and otherwise the
\* child's own exit code converted by ExitCode::from.  TransactError is what
\* fn_impl itself reports only for a child run that returned an error.
C6_ChildExitCodePropagates ==
    /\ ChildFailed =>
          /\ exec_result.tag = "Err"
          /\ exec_result.code =
                IF exec_call.return_len > 0 /\ OutputExceeds
                THEN "OutputOverflow"
                ELSE ExitCodeFrom(exec_call.child.exit_code)
    /\ (Called /\ exec_call.child.run_err) =>
          (exec_result.tag = "Err" /\ exec_result.code = "TransactError")

C6_Witness ==
    /\ ChildFailed
    /\ exec_call.child.exit_code = -71
    /\ exec_result.tag = "Err"
    /\ exec_result.code = "Panic"

\* C7: when the nested call fails (child run error, non-success exit code or
\* output overflow) the parent's consumed_fuel and return_data are what they
\* were before the call.
C7_NoFoldOnFailure ==
    (Called /\ exec_result.tag = "Err") =>
        /\ ctx.consumed_fuel = ctx_before.consumed_fuel
        /\ ctx.return_data = ctx_before.return_data

C7_Witness ==
    /\ Called
    /\ exec_result.tag = "Err"
    /\ ChildFailed
    /\ exec_call.child.output /= <<>>
    /\ exec_call.child.output /= ctx_before.return_data
    /\ unwrap_or_default(exec_call.child.fuel_consumed) > 0
    /\ ctx_before.consumed_fuel > 0
    /\ ctx = ctx_before

\* C8 as stated: for every return_len, 0 included, a child output longer than
\* return_len makes the call fail with OutputOverflow and folds nothing.
C8_AsStated ==
    OutputExceeds =>
        /\ exec_result.tag = "Err"
        /\ exec_result.code = "OutputOverflow"
        /\ ctx = ctx_before

\* C8 as amended: for every return_len > 0, a child output longer than
\* return_len makes the call fail with OutputOverflow and folds nothing; with
\* return_len = 0 the length is not checked: a child that exited with Ok is
\* never answered with an error, and when fn_impl returns its output is
\* accepted and folded whatever its length.
C8_OverflowOnlyWhenReturnLenPositive ==
    /\ (OutputExceeds /\ exec_call.return_len > 0) =>
          /\ exec_result.tag = "Err"
          /\ exec_result.code = "OutputOverflow"
          /\ ctx = ctx_before
    /\ (ChildFinished /\ exec_call.return_len = 0
                      /\ exec_call.child.exit_code = 0) =>
          /\ exec_result.tag /= "Err"
          /\ exec_result.tag = "Ok" =>
                /\ exec_result.data = exec_call.child.output
                /\ ctx.return_data = exec_call.child.output

C8_Witness ==
    /\ OutputExceeds
    /\ exec_call.return_len = 1
    /\ Len(exec_call.child.output) = 3
    /\ exec_call.child.exit_code = 0
    /\ exec_result.code = "OutputOverflow"
    /\ ctx_before.return_data /= <<>>
    /\ ctx = ctx_before

HandlerReturned == handler_result.tag \in {"Ok", "Trap"}

\* some read or write of guest memory made by the last fn_handler call failed
MemoryFault ==
    \/ ~mem_in_range(guest_mem_before, handler_call.bytecode_hash32_offset, 32)
    \/ ~mem_in_range(guest_mem_before, handler_call.input_offset,
                     handler_call.input_len)
    \/ ~mem_in_range(guest_mem_before, handler_call.fuel_offset, 4)
    \/ /\ exec_result.tag = "Ok"
       /\ handler_call.return_len > 0
       /\ ~mem_in_range(guest_mem_before, handler_call.return_offset,
                        Len(exec_result.data))

\* C12: whatever fn_impl returns, fn_handler hands the guest an ordinary
\* result: Ok(code of the error) for every Err(ExitCode) of fn_impl, a code
\* that is never ExitCode::Ok, and Ok(ExitCode::Ok) for Ok unless writing
\* the result back fails; fn_handler returns a Trap exactly when one of its
\* reads or writes of guest memory fails.
C12_FailureIsAnExitCode ==
    /\ exec_result.tag = "Err" =>
          /\ handler_result = HandlerOk(into_i32(exec_result.code))
          /\ handler_result.code /= into_i32("Ok")
    /\ (exec_result.tag = "Ok" /\ ~MemoryFault) =>
          handler_result = HandlerOk(into_i32("Ok"))
    /\ HandlerReturned => (handler_result.tag = "Trap" <=> MemoryFault)

C12_Witness ==
    /\ exec_result = ExecErr("Panic")
    /\ exec_call.child.exit_code = -71
    /\ handler_result = HandlerOk(-71)
    /\ guest_mem = guest_mem_before

\* C18 as stated: when fn_impl returns Ok for fuel limit F and child
\* consumption c, the parent's consumed_fuel has gone up by exactly c, its
\* return_data is the child's output, and the remaining fuel returned is
\* F - c, between 0 and F.
C18_AsStated ==
    exec_result.tag = "Ok" =>
        LET c == unwrap_or_default(exec_call.child.fuel_consumed)
        IN  /\ ctx.consumed_fuel = ctx_before.consumed_fuel + c
            /\ ctx.return_data = exec_call.child.output
            /\ exec_result.remaining = exec_call.fuel_limit - c
            /\ exec_result.remaining \in 0..exec_call.fuel_limit

\* C19 as stated: the fuel limit given to the child never exceeds the fuel
\* the parent has left when it makes the call (its own limit less what it
\* has consumed), a parent without fuel being refused at entry.
C19_AsStated ==
    Called =>
        exec_call.next_ctx.fuel_limit <= ctx_before.fuel_limit - ctx_before.consumed_fuel

C24_GuestMemoryFrame ==
    /\ (exec_result.tag = "Err" \/ handler_result.tag = "Trap") =>
          guest_mem = guest_mem_before
    /\ handler_result = HandlerOk(into_i32("Ok")) =>
          LET a == handler_call
              written == IF a.return_len > 0 THEN Len(exec_result.data) ELSE 0
              InFuel(i) == a.fuel_offset < i /\ i <= a.fuel_offset + 4
              InReturn(i) == a.return_offset < i /\ i <= a.return_offset + written
          IN  /\ exec_result.tag = "Ok"
              /\ written <= a.return_len
              /\ Len(guest_mem) = Len(guest_mem_before)
              /\ read_guest(guest_mem, a.fuel_offset, 4) =
                     le_bytes(exec_result.remaining, 4)
              /\ le_value(read_guest(guest_mem, a.fuel_offset, 4)) =
                     exec_result.remaining
              /\ \A i \in 1..Len(guest_mem) :
                     \/ InFuel(i)
                     \/ /\ InReturn(i)
                        /\ guest_mem[i] = exec_result.data[i - a.return_offset]
                     \/ /\ ~InReturn(i)
                        /\ guest_mem[i] = guest_mem_before[i]

C24_Witness ==
    /\ handler_result = HandlerOk(into_i32("Ok"))
    /\ handler_call.return_len = 2
    /\ Len(exec_result.data) = 1
    /\ guest_mem[handler_call.return_offset + 1] /=
           guest_mem_before[handler_call.return_offset + 1]
    /\ read_guest(guest_mem, handler_call.fuel_offset, 4) /=
           read_guest(guest_mem_before, handler_call.fuel_offset, 4)


(***************************************************************************)
(* Properties of the account arithmetic (checked under SpecBal)            *)
(***************************************************************************)
AccReturned == acct_op /= NoAccOp /\ acct_result.tag /= "Panic"

\* C13: every call of inc_nonce, add_balance or sub_balance that returns
\* either leaves the exact mathematical result in the field (nonce + 1,
\* balance + amount, balance - amount) and returns Ok, or returns
\* NonceOverflow, OverflowPayment or InsufficientBalance respectively; no
\* call returns with a wrapped-around nonce or balance.
C13_AsStated ==
    AccReturned =>
        CASE acct_op.name = "inc_nonce" ->
               \/ /\ acct_result.tag = "Ok"
                  /\ acct.nonce = acct_before.nonce + 1
               \/ acct_result = AccErr("NonceOverflow")
          [] acct_op.name = "add_balance" ->
               \/ /\ acct_result.tag = "Ok"
                  /\ acct.balance = acct_before.balance + acct_op.amount
               \/ acct_result = AccErr("OverflowPayment")
          [] acct_op.name = "sub_balance" ->
               \/ /\ acct_result.tag = "Ok"
                  /\ acct.balance = acct_before.balance - acct_op.amount
               \/ acct_result = AccErr("InsufficientBalance")

\* C22: account arithmetic leaves the account unchanged on error: whenever
\* inc_nonce returns NonceOverflow, sub_balance returns InsufficientBalance
\* or add_balance returns OverflowPayment, the account's nonce and balance
\* are what they were before the call; on success inc_nonce returns the
\* nonce held before the increment.
C22_AsStated ==
    AccReturned =>
        /\ acct_result.tag = "Err" => acct = acct_before
        /\ (acct_op.name = "inc_nonce" /\ acct_result.tag = "Ok") =>
               acct_result.value = acct_before.nonce

(***************************************************************************)
(* Properties of account transfer and creation (checked under SpecPair)    *)
(***************************************************************************)
CreateReturned ==
    pair_op.name = "create_account" /\ pair_result.tag \in {"Ok", "Err"}

TransferReturned == pair_op.name = "transfer"

\* C21: create_account succeeds only if caller.balance >= amount and the
\* target account is empty (nonce 0, both code hashes the empty hashes); on
\* InsufficientBalance the caller is unchanged; on success the caller's
\* nonce has increased by exactly 1, exactly `amount` has moved from the
\* caller's balance to the callee's, the callee's nonce is 1 and the callee
\* address was derived from the caller's nonce before the increment (or
\* from salt and hash for create2).
C21_AsStated ==
    CreateReturned =>
        /\ pair_result = AccErr("InsufficientBalance") =>
               caller = pair_before.caller
        /\ pair_result.tag = "Ok" =>
               /\ pair_before.caller.balance >= pair_op.amount
               /\ ~is_not_empty(pair_before.callee)
               /\ pair_before.callee.nonce = 0
               /\ pair_before.callee.source_code_hash = KECCAK_EMPTY
               /\ pair_before.callee.rwasm_code_hash = POSEIDON_EMPTY
               /\ caller.nonce = pair_before.caller.nonce + 1
               /\ caller.balance = pair_before.caller.balance - pair_op.amount
               /\ callee.balance = pair_before.callee.balance + pair_op.amount
               /\ callee.nonce = 1
               /\ callee.address =
                      IF pair_op.salt_hash = <<>>
                      THEN calc_create_address(pair_before.caller.address,
                                               pair_before.caller.nonce)
                      ELSE calc_create2_address(pair_before.caller.address,
                                                pair_op.salt_hash[1],
                                                pair_op.salt_hash[2])

\* C23: Account::transfer is atomic and conserves value: it either returns
\* Ok with from.balance decreased and to.balance increased by `amount` (the
\* sum unchanged), or returns an error with both balances unchanged; when
\* the credit fails with OverflowPayment the sender has not been debited.
C23_AsStated ==
    TransferReturned =>
        \/ /\ pair_result.tag = "Ok"
           /\ caller.balance = pair_before.caller.balance - pair_op.amount
           /\ callee.balance = pair_before.callee.balance + pair_op.amount
           /\ caller.balance + callee.balance =
                  pair_before.caller.balance + pair_before.callee.balance
        \/ /\ pair_result.tag = "Err"
           /\ caller.balance = pair_before.caller.balance
           /\ callee.balance = pair_before.callee.balance

(***************************************************************************)
(* Properties of the instruction set (checked under SpecIset)              *)
(***************************************************************************)
\* C25: after any sequence of push, push_with_meta, op_* and extend calls
\* from an empty set, push returns the previous length and len grows by
\* exactly 1 per push, and whenever metas is present its length equals the
\* instruction count: the assertion in push_with_meta never fails.
C25_AsStated ==
    /\ iset_result.tag /= "Panic"
    /\ iset.metas /= <<>> => Len(iset.metas[1]) = Len(iset.instr)
    /\ (iset_op.name \in {"push", "push_with_meta"} /\ iset_result.tag = "Ok") =>
           /\ iset_result.value = len(iset_before)
           /\ len(iset) = len(iset_before) + 1

(***************************************************************************)
(* Properties of the translator's subroutines (checked under SpecTr)       *)
(***************************************************************************)
\* the SubroutineData registered by the i-th entry of the table
SubroutineOf(i) == opcode_to_subroutine_data[SnippetTable[i]]

\* C26: init_code_snippets registers each opcode of its table once and
\* never panics (registering a registered opcode again would panic); the
\* subroutines occupy consecutive, pairwise disjoint ranges
\* [begin_offset, end_offset] of subroutines_instruction_set in registration
\* order, each range as long as its subroutine and holding its instructions,
\* and together the ranges cover the whole concatenated set.
C26_SubroutineRanges ==
    /\ ~snippets_panicked
    /\ DOMAIN opcode_to_subroutine_data =
           {SnippetTable[i] : i \in 1..snippets_done}
    /\ Cardinality(DOMAIN opcode_to_subroutine_data) = snippets_done
    /\ \A o \in DOMAIN opcode_to_subroutine_data :
           initiate_subroutines(opcode_to_subroutine_data,
                                subroutines_instruction_set, o,
                                CompiledSnippet(o, 1), 0).panic
    /\ \A i \in 1..snippets_done :
           LET d == SubroutineOf(i)
           IN  /\ d.begin_offset =
                      IF i = 1 THEN 0 ELSE SubroutineOf(i - 1).end_offset + 1
               /\ d.end_offset - d.begin_offset + 1 = len(d.instruction_set)
               /\ SubSeq(subroutines_instruction_set.instr,
                         d.begin_offset + 1, d.end_offset + 1) =
                      d.instruction_set.instr
    /\ \A i, j \in 1..snippets_done :
           i < j => SubroutineOf(i).end_offset < SubroutineOf(j).begin_offset
    /\ len(subroutines_instruction_set) =
           IF snippets_done = 0 THEN 0
           ELSE SubroutineOf(snippets_done).end_offset + 1

C26_Witness ==
    /\ snippets_done = Len(SnippetTable)
    /\ SubroutineOf(1).end_offset = SubroutineOf(1).begin_offset
    /\ SubroutineOf(2).end_offset > SubroutineOf(2).begin_offset
    /\ len(subroutines_instruction_set) > Len(SnippetTable) + 1

====
